---- MODULE Spec2Model ----
(***************************************************************************)
(* Model of the LAML validation-and-auto-fix engine (validateLaml and the  *)
(* validators it runs) over a mutable document tree.                       *)
(*                                                                         *)
(* Text is a sequence of one-character strings, so that the regular        *)
(* expressions and string tests of the code are computed, not assumed.     *)
(* A document node is a record {kind, vt, text, style, flow, items}:       *)
(*   scalar : vt in {"str","bool","num","null"}, text = its characters,    *)
(*            style = the yaml Scalar.type ("NONE" for an unset type);     *)
(*   alias  : text = the anchor name (Alias.source);                       *)
(*   map    : items = sequence of pairs [key |-> text, value |-> node];    *)
(*   seq    : items = sequence of nodes.                                   *)
(* Mapping keys are plain string scalars, held by their text.              *)
(*                                                                         *)
(* The auto-fix ledger is one ordered list (context.autoFixedIssues).  The *)
(* code records into it in two ways, both modelled: Array.push (Push) and  *)
(* AutoFixManager.add (AutoFixAdd, insert-if-absent).                      *)
(***************************************************************************)
EXTENDS Integers, Sequences, FiniteSets, TLC

VARIABLES
    originalContent,        \* what the caller passed as originalContent and
                            \* filename: "none", "fenced" or "unwrapped"
    parseResult,            \* validateLaml's parameter: [ast, errors]
    document,               \* context.document.contents, mutated in place
    sessionErrors,          \* session._errors, append-only
    sessionWarnings,        \* session._warnings, append-only
    autoFixedIssues,        \* context.autoFixedIssues, the ledger
    fixedContent,           \* the local fixedContent of validateLaml
    pc,                     \* position inside validateLaml
    result,                 \* the LamlValidationResult returned
    run,                    \* 1 = first run, n + 1 = run on the text run n returned
    previous,               \* what the previous run returned and recorded
    externalDocumentCache,  \* process-wide cache of loaded external documents
    disk,                   \* what the file system holds at the path: [kind, content]
    load,                   \* handleLoadLaml's frame: [path, reads, response]
    externalFiles,          \* the files at the paths $refs entries name: path -> tree
    runs                    \* the runs in progress that load external documents

vars == <<originalContent, parseResult, document, sessionErrors,
          sessionWarnings, autoFixedIssues, fixedContent, pc, result, run,
          previous, externalDocumentCache, disk, load, externalFiles, runs>>

----------------------------------------------------------------------------
(* Characters and strings *)

Lower == {"a","b","c","d","e","f","g","h","i","j","k","l","m",
          "n","o","p","q","r","s","t","u","v","w","x","y","z"}
Upper == {"A","B","C","D","E","F","G","H","I","J","K","L","M",
          "N","O","P","Q","R","S","T","U","V","W","X","Y","Z"}
Digit == {"0","1","2","3","4","5","6","7","8","9"}
Alpha == Lower \cup Upper
AlNum == Alpha \cup Digit

K_meta == <<"$","m","e","t","a">>
K_refs == <<"$","r","e","f","s">>
K_merge == <<"<","<">>
K_name == <<"n","a","m","e">>
K_purpose == <<"p","u","r","p","o","s","e">>
K_version == <<"v","e","r","s","i","o","n">>
K_spec == <<"s","p","e","c">>
K_domains == <<"d","o","m","a","i","n","s">>
K_path == <<"p","a","t","h">>
T_untitled == <<"u","n","t","i","t","l","e","d">>
T_lamlDocument == <<"L","A","M","L"," ","d","o","c","u","m","e","n","t">>
T_specPath == <<".","c","u","r","s","o","r","/","r","u","l","e","s","/",
                "g","-","l","a","m","l",".","m","d","c">>
T_refsPrefix == <<"$","r","e","f","s",".">>
T_extPrefix == <<"*","$","r","e","f","s",".">>
T_escStar == <<"\\","*">>
T_url == <<":","/","/">>
T_true == <<"t","r","u","e">>
T_false == <<"f","a","l","s","e">>
T_yes == <<"y","e","s">>
T_no == <<"n","o">>
T_one == <<"1">>
T_zero == <<"0">>
T_NULL == <<"n","u","l","l">>

Range(s) == {s[i] : i \in 1..Len(s)}

Drop(s, n) == SubSeq(s, n + 1, Len(s))

StartsWith(s, p) == Len(s) >= Len(p) /\ SubSeq(s, 1, Len(p)) = p

Includes(s, p) ==
    \E i \in 1..(Len(s) - Len(p) + 1) : SubSeq(s, i, i + Len(p) - 1) = p

\* String.prototype.split(c) for a one-character separator
RECURSIVE Split(_, _)
Split(s, c) ==
    IF \E i \in 1..Len(s) : s[i] = c
    THEN LET i == CHOOSE k \in 1..Len(s) :
                      s[k] = c /\ \A j \in 1..(k - 1) : s[j] # c
         IN  <<SubSeq(s, 1, i - 1)>> \o Split(Drop(s, i), c)
    ELSE <<s>>

\* Array.prototype.join(sep)
RECURSIVE Join(_, _)
Join(parts, sep) ==
    IF Len(parts) = 0 THEN <<>>
    ELSE IF Len(parts) = 1 THEN parts[1]
    ELSE parts[1] \o sep \o Join(Tail(parts), sep)

\* /^[a-zA-Z][a-zA-Z0-9]*$/
IsIdent(seg) ==
    /\ Len(seg) > 0
    /\ seg[1] \in Alpha
    /\ \A i \in 1..Len(seg) : seg[i] \in AlNum

\* /^[a-z][a-zA-Z0-9]*$/
IsCamel(seg) ==
    /\ Len(seg) > 0
    /\ seg[1] \in Lower
    /\ \A i \in 1..Len(seg) : seg[i] \in AlNum

\* String.prototype.trim().length === 0
IsBlank(s) == \A i \in 1..Len(s) : s[i] \in {" ", "\n"}

\* const name = value; ...body: the value is computed once and named
With(value, Body(_)) == Body(value)

----------------------------------------------------------------------------
(* Document tree *)

Scalar(vt, text, style) ==
    [kind |-> "scalar", vt |-> vt, text |-> text, style |-> style,
     flow |-> FALSE, items |-> <<>>]

Str(text, style) == Scalar("str", text, style)
Bool(b) == Scalar("bool", IF b THEN T_true ELSE T_false, "PLAIN")
Num(text) == Scalar("num", text, "PLAIN")

Alias(source) ==
    [kind |-> "alias", vt |-> "none", text |-> source, style |-> "NONE",
     flow |-> FALSE, items |-> <<>>]

Map(flow, items) ==
    [kind |-> "map", vt |-> "none", text |-> <<>>, style |-> "NONE",
     flow |-> flow, items |-> items]

Seq_(flow, items) ==
    [kind |-> "seq", vt |-> "none", text |-> <<>>, style |-> "NONE",
     flow |-> flow, items |-> items]

Pair(key, value) == [key |-> key, value |-> value]

isScalar(n) == n.kind = "scalar"
isMap(n) == n.kind = "map"
isSeq(n) == n.kind = "seq"
isAlias(n) == n.kind = "alias"
isString(n) == isScalar(n) /\ n.vt = "str"

\* map.items.findIndex(item => item.key.value === key); 0 when absent
FindIndex(items, key) ==
    IF \E i \in 1..Len(items) : items[i].key = key
    THEN CHOOSE i \in 1..Len(items) :
             items[i].key = key /\ \A j \in 1..(i - 1) : items[j].key # key
    ELSE 0

\* items.splice(i, 1)
RemoveAt(items, i) == SubSeq(items, 1, i - 1) \o SubSeq(items, i + 1, Len(items))

----------------------------------------------------------------------------
(* Diagnostics and ledger *)

DiagMsg(code, msg, path, cycle) ==
    [code |-> code, msg |-> msg, path |-> path, cycle |-> cycle]

Diag(code, path, cycle) == DiagMsg(code, "", path, cycle)

Fix(msg, a, b, c) == [msg |-> msg, a |-> a, b |-> b, c |-> c]

\* context.autoFixedIssues.push(message)
Push(ledger, m) == Append(ledger, m)


\* AutoFixManager.add: Set.add keeps the first insertion, getAll lists in
\* insertion order
AutoFixAdd(ledger, m) ==
    IF m \in Range(ledger) THEN ledger ELSE Append(ledger, m)

----------------------------------------------------------------------------
(* literalUtils *)

LowerSeq == <<"a","b","c","d","e","f","g","h","i","j","k","l","m",
              "n","o","p","q","r","s","t","u","v","w","x","y","z">>
UpperSeq == <<"A","B","C","D","E","F","G","H","I","J","K","L","M",
              "N","O","P","Q","R","S","T","U","V","W","X","Y","Z">>

ToLowerChar(c) ==
    IF c \in Upper
    THEN LowerSeq[CHOOSE i \in 1..Len(UpperSeq) : UpperSeq[i] = c]
    ELSE c

ToLowerCase(s) == [i \in 1..Len(s) |-> ToLowerChar(s[i])]

\* /\.[a-zA-Z0-9]+$/
EndsWithExtension(value) ==
    \E i \in 1..(Len(value) - 1) :
        /\ value[i] = "."
        /\ \A j \in (i + 1)..Len(value) : value[j] \in AlNum

isProperLiteralFormat(value) ==
    IF IsCamel(value) THEN TRUE
    ELSE IF LET segs == Split(value, ".")
            IN  Len(segs) \in 2..4 /\ \A i \in 1..Len(segs) : IsCamel(segs[i])
         THEN TRUE
    ELSE IF "/" \in Range(value) \/ "\\" \in Range(value)
            \/ EndsWithExtension(value)
         THEN Range(value) \cap {"<", ">", ":", "\"", "|", "?", "*"} = {}
    ELSE FALSE

MaxLiteralLength == 50

isLiteralValue(value) ==
    IF Len(value) > MaxLiteralLength \/ " " \in Range(value)
       \/ "\n" \in Range(value)
    THEN FALSE
    ELSE IF Includes(value, T_url) \/ "@" \in Range(value) THEN FALSE
    ELSE IF StartsWith(value, <<"*">>) \/ StartsWith(value, T_escStar)
         THEN FALSE
    ELSE TRUE

\* value.split(/(?=[A-Z])/).filter(w => w.length > 0).length
WordCount(value) ==
    IF Len(value) = 0 THEN 0
    ELSE 1 + Cardinality({i \in 2..Len(value) : value[i] \in Upper})

BooleanTriggers ==
    { <<"h","a","s">>, <<"i","s">>, <<"c","a","n">>,
      <<"s","h","o","u","l","d">>, <<"m","u","s","t">>,
      <<"a","l","l","o","w","s">>, <<"r","e","q","u","i","r","e","s">>,
      <<"c","o","n","t","a","i","n","s">> }

isBooleanTrigger(key) ==
    \E t \in BooleanTriggers : StartsWith(ToLowerCase(key), t)

----------------------------------------------------------------------------
(* referenceUtils *)

\* a format check that forgets the digits: /^[a-zA-Z]+(\.[a-zA-Z]+)*$/
isValidReferenceLettersOnly(path) ==
    /\ StartsWith(path, <<"*">>)
    /\ LET segs == Split(Drop(path, 1), ".")
       IN  \A i \in 1..Len(segs) :
               Len(segs[i]) > 0 /\ Range(segs[i]) \subseteq Alpha

isValidReference(path) ==
    IF ~StartsWith(path, <<"*">>) THEN FALSE
    ELSE LET dotPath == Drop(path, 1) IN
         IF StartsWith(dotPath, T_refsPrefix)
         THEN LET segs == Split(Drop(dotPath, 6), ".")
              IN  Len(segs) >= 2 /\ \A i \in 1..Len(segs) : IsIdent(segs[i])
         ELSE LET segs == Split(dotPath, ".")
              IN  \A i \in 1..Len(segs) : IsIdent(segs[i])

\* end of the run [a-zA-Z0-9]* that starts at position i
RECURSIVE IdentEnd(_, _)
IdentEnd(s, i) ==
    IF i + 1 <= Len(s) /\ s[i + 1] \in AlNum THEN IdentEnd(s, i + 1) ELSE i

\* end of (?:\.[a-zA-Z][a-zA-Z0-9]*)* after position e
RECURSIVE PathEnd(_, _)
PathEnd(s, e) ==
    IF e + 2 <= Len(s) /\ s[e + 1] = "." /\ s[e + 2] \in Alpha
    THEN PathEnd(s, IdentEnd(s, e + 2))
    ELSE e

\* value.match(/\\?\*[a-zA-Z][a-zA-Z0-9]*(?:\.[a-zA-Z][a-zA-Z0-9]*)*/g),
\* keeping the matches that do not start with \*
RECURSIVE ScanMatches(_, _)
ScanMatches(s, i) ==
    IF i > Len(s) THEN <<>>
    ELSE IF i + 2 <= Len(s) /\ s[i] = "\\" /\ s[i + 1] = "*"
            /\ s[i + 2] \in Alpha
         THEN ScanMatches(s, PathEnd(s, IdentEnd(s, i + 2)) + 1)
    ELSE IF i + 1 <= Len(s) /\ s[i] = "*" /\ s[i + 1] \in Alpha
         THEN LET e == PathEnd(s, IdentEnd(s, i + 1))
              IN  <<SubSeq(s, i, e)>> \o ScanMatches(s, e + 1)
    ELSE ScanMatches(s, i + 1)

\* the Scalar visitor of findAllReferences, on one string
ScalarReferences(value) ==
    IF StartsWith(value, T_escStar) THEN <<>>
    ELSE IF StartsWith(value, <<"*">>) THEN <<value>>
    ELSE ScanMatches(value, 1)

RECURSIVE findAllReferences(_)
findAllReferences(node) ==
    IF isString(node) THEN ScalarReferences(node.text)
    ELSE IF isMap(node)
         THEN LET F[i \in 0..Len(node.items)] ==
                      IF i = 0 THEN <<>>
                      ELSE F[i - 1] \o ScalarReferences(node.items[i].key)
                                    \o findAllReferences(node.items[i].value)
              IN  F[Len(node.items)]
    ELSE IF isSeq(node)
         THEN LET F[i \in 0..Len(node.items)] ==
                      IF i = 0 THEN <<>>
                      ELSE F[i - 1] \o findAllReferences(node.items[i])
              IN  F[Len(node.items)]
    ELSE <<>>

RECURSIVE WalkPath(_, _)
WalkPath(current, segs) ==
    IF Len(segs) = 0 THEN TRUE
    ELSE IF ~isMap(current) THEN FALSE
    ELSE LET i == FindIndex(current.items, segs[1])
         IN  IF i = 0 THEN FALSE
             ELSE WalkPath(current.items[i].value, Tail(segs))

\* a lookup that stops after the first segment of the path
referenceExistsAtRoot(contents, refPath) ==
    /\ isMap(contents)
    /\ FindIndex(contents.items, Split(Drop(refPath, 1), ".")[1]) # 0

referenceExists(contents, refPath) ==
    IF ~isMap(contents) THEN FALSE
    ELSE WalkPath(contents, Split(Drop(refPath, 1), "."))

\* findInMap of findPropertyContainingReference; <<>> stands for null
RECURSIVE findInMap(_, _, _)
findInMap(map, currentPath, referencePath) ==
    LET F[i \in 1..(Len(map.items) + 1)] ==
            IF i > Len(map.items) THEN <<>>
            ELSE LET item == map.items[i]
                     here == Append(currentPath, item.key)
                 IN  IF isString(item.value) /\ item.value.text = referencePath
                     THEN Join(here, <<".">>)
                     ELSE IF isMap(item.value)
                          THEN LET found == findInMap(item.value, here,
                                                      referencePath)
                               IN  IF found # <<>> THEN found ELSE F[i + 1]
                          ELSE F[i + 1]
    IN  F[1]

findPropertyContainingReference(contents, referencePath) ==
    IF ~isMap(contents) THEN <<>>
    ELSE findInMap(contents, <<>>, referencePath)

\* Map.prototype.set on an insertion-ordered list of [src, tgt]
GraphSet(graph, src, tgt) ==
    IF \E i \in 1..Len(graph) : graph[i].src = src
    THEN [i \in 1..Len(graph) |->
              IF graph[i].src = src THEN [src |-> src, tgt |-> tgt]
              ELSE graph[i]]
    ELSE Append(graph, [src |-> src, tgt |-> tgt])

\* Map.prototype.get; <<>> stands for undefined
GraphGet(graph, src) ==
    IF \E i \in 1..Len(graph) : graph[i].src = src
    THEN graph[CHOOSE i \in 1..Len(graph) : graph[i].src = src].tgt
    ELSE <<>>

\* the dependency graph built at the head of findCircularReferences
dependencyGraph(contents, references) ==
    LET \* the body of "for (const ref of references)"
        Edge(graph, ref) ==
            With(findPropertyContainingReference(contents, ref),
                 LAMBDA sourceProperty :
                IF sourceProperty # <<>> /\ referenceExists(contents, ref)
                THEN GraphSet(graph, sourceProperty, Drop(ref, 1))
                ELSE graph)
        F[i \in 0..Len(references)] ==
            IF i = 0 THEN <<>>
            ELSE Edge(F[i - 1], references[i])
    IN  F[Len(references)]

\* path.indexOf(node), 1-based; 0 when absent
IndexOf(path, node) ==
    IF \E i \in 1..Len(path) : path[i] = node
    THEN CHOOSE i \in 1..Len(path) :
             path[i] = node /\ \A j \in 1..(i - 1) : path[j] # node
    ELSE 0

\* path.slice(path.length): the cycle list loses the path walked
SliceNothing(path, node) == <<>>

\* path.slice(-1) whatever the node: only the last element of the path
SliceLast(path, node) == SubSeq(path, Len(path), Len(path))

\* path.slice(path.indexOf(node)): slice(-1) keeps the last element
SliceFrom(path, node) ==
    IF IndexOf(path, node) = 0
    THEN SubSeq(path, Len(path), Len(path))
    ELSE SubSeq(path, IndexOf(path, node), Len(path))

\* detectCycle; st = [visited, recursionStack, circularRefs]
RECURSIVE detectCycle(_, _, _, _)
detectCycle(graph, node, path, st) ==
    IF node \in st.recursionStack
    THEN [found |-> TRUE,
          st |-> [st EXCEPT !.circularRefs =
                      Append(@, SliceFrom(path, node) \o <<node>>)]]
    ELSE IF node \in st.visited THEN [found |-> FALSE, st |-> st]
    ELSE With([st EXCEPT !.visited = @ \cup {node},
                         !.recursionStack = @ \cup {node}], LAMBDA st1 :
         With(GraphGet(graph, node), LAMBDA target :
         IF target = <<>>
         THEN [found |-> FALSE,
               st |-> [st1 EXCEPT !.recursionStack = @ \ {node}]]
         ELSE With(detectCycle(graph, target, Append(path, node), st1),
                   LAMBDA r :
              IF r.found THEN r
              ELSE [found |-> FALSE,
                    st |-> [r.st EXCEPT !.recursionStack = @ \ {node}]])))

findCircularReferences(contents, references) ==
    With(dependencyGraph(contents, references), LAMBDA graph :
    LET \* the body of "for (const node of dependencyGraph.keys())"
        Visit(prev, node) ==
            IF node \in prev.visited THEN prev
            ELSE detectCycle(graph, node, <<>>, prev).st
        F[i \in 0..Len(graph)] ==
            IF i = 0
            THEN [visited |-> {}, recursionStack |-> {}, circularRefs |-> <<>>]
            ELSE Visit(F[i - 1], graph[i].src)
    IN  F[Len(graph)].circularRefs)

----------------------------------------------------------------------------
(* Structural validation: $meta fields and domains.                        *)
(* A validator takes and returns acc = [errors, warnings, ledger].         *)

AddError(acc, d) == [acc EXCEPT !.errors = Append(@, d)]
AddWarning(acc, d) == [acc EXCEPT !.warnings = Append(@, d)]

NoPath == <<>>
NoCycle == <<>>

IsNegative(text) == StartsWith(text, <<"-">>)

validateMetaFieldValue(acc, field, value) ==
    IF field = K_version
    THEN IF ~(isScalar(value) /\ value.vt = "num")
         THEN AddError(acc, Diag("LAML_META_VERSION_INVALID_TYPE", field, NoCycle))
         ELSE IF IsNegative(value.text)
              THEN AddError(acc, Diag("LAML_META_VERSION_NEGATIVE", field, NoCycle))
              ELSE acc
    ELSE IF ~isScalar(value)
         THEN AddError(acc, Diag("LAML_META_FIELD_INVALID_TYPE", field, NoCycle))
    ELSE IF field = K_name
         THEN IF value.vt # "str"
              THEN AddError(acc, Diag("LAML_META_NAME_INVALID_TYPE", field, NoCycle))
              ELSE IF IsBlank(value.text)
                   THEN AddError(acc, Diag("LAML_META_NAME_EMPTY", field, NoCycle))
              ELSE IF ~isProperLiteralFormat(value.text)
                   THEN AddError(acc, Diag("LAML_META_NAME_INVALID_FORMAT",
                                           field, NoCycle))
              ELSE acc
    ELSE IF field = K_purpose
         THEN IF value.vt # "str"
              THEN AddError(acc, Diag("LAML_META_PURPOSE_INVALID_TYPE",
                                      field, NoCycle))
              ELSE IF IsBlank(value.text)
                   THEN AddError(acc, Diag("LAML_META_PURPOSE_INVALID",
                                           field, NoCycle))
              ELSE acc
    ELSE IF field = K_spec
         THEN IF value.vt # "str"
              THEN AddError(acc, Diag("LAML_META_SPEC_INVALID_TYPE", field, NoCycle))
              ELSE IF IsBlank(value.text)
                   THEN AddError(acc, Diag("LAML_META_SPEC_INVALID", field, NoCycle))
              ELSE acc
    ELSE acc

MaxDomainLevels == 4

\* a limit of four domains
MaxDomainsFour == 3 + 1

MaxDomains == 3

isValidDomainFormat(domain) ==
    IF Len(domain) = 0 THEN FALSE
    ELSE LET segments == Split(domain, ".")
         IN  IF Len(segments) > MaxDomainLevels THEN FALSE
             ELSE \A i \in 1..Len(segments) : isProperLiteralFormat(segments[i])

\* a search that finds no pair
findNoOverlappingDomains(domains) == <<>>

\* the pairs (i < j) where one domain plus "." is a prefix of the other
findOverlappingDomains(domains) ==
    LET G[k \in 0..(Len(domains) * Len(domains))] ==
            IF k = 0 THEN <<>>
            ELSE LET i == ((k - 1) \div Len(domains)) + 1
                     j == ((k - 1) % Len(domains)) + 1
                 IN  IF j > i
                        /\ (\/ StartsWith(domains[i], domains[j] \o <<".">>)
                            \/ StartsWith(domains[j], domains[i] \o <<".">>))
                     THEN Append(G[k - 1],
                                 [domain1 |-> domains[i], domain2 |-> domains[j]])
                     ELSE G[k - 1]
    IN  G[Len(domains) * Len(domains)]

\* domains.indexOf(d) !== index
IsLaterDuplicate(domains, i) == \E j \in 1..(i - 1) : domains[j] = domains[i]

\* Array.from(new Set(domains))
UniqueInOrder(domains) ==
    LET F[i \in 0..Len(domains)] ==
            IF i = 0 THEN <<>>
            ELSE IF IsLaterDuplicate(domains, i) THEN F[i - 1]
                 ELSE Append(F[i - 1], domains[i])
    IN  F[Len(domains)]

\* the loop "for (const index of indicesToRemove) domainsSeq.items.splice(index, 1)":
\* indices of the string list `domains`, highest first, applied to the
\* items of the YAML sequence
RemoveDuplicateItems(items, domains) ==
    LET F[k \in 0..Len(domains)] ==
            IF k = 0 THEN items
            ELSE LET i == Len(domains) - k + 1
                 IN  IF IsLaterDuplicate(domains, i)
                     THEN RemoveAt(F[k - 1], i)
                     ELSE F[k - 1]
    IN  F[Len(domains)]

\* domains.filter((domain, index) => domains.indexOf(domain) !== index)
Duplicates(domains) ==
    LET D[i \in 0..Len(domains)] ==
            IF i = 0 THEN <<>>
            ELSE IF IsLaterDuplicate(domains, i)
                 THEN Append(D[i - 1], domains[i])
                 ELSE D[i - 1]
    IN  D[Len(domains)]

\* returns [map, acc]
validateDomainsField(acc, metaMap) ==
    With(FindIndex(metaMap.items, K_domains), LAMBDA di :
    IF di = 0
    THEN [map |-> metaMap,
          acc |-> AddError(acc, Diag("LAML_META_DOMAINS_MISSING", K_domains, NoCycle))]
    ELSE
    With(metaMap.items[di].value, LAMBDA domainsSeq :
    IF ~isSeq(domainsSeq)
    THEN [map |-> metaMap,
          acc |-> AddError(acc, Diag("LAML_META_DOMAINS_INVALID_TYPE",
                                     K_domains, NoCycle))]
    ELSE IF Len(domainsSeq.items) = 0
    THEN [map |-> metaMap,
          acc |-> AddError(acc, Diag("LAML_DOMAINS_EMPTY", K_domains, NoCycle))]
    ELSE
    LET items == domainsSeq.items
        \* the body of the per-item loop; prev = [domains, acc]
        Item(prev, item) ==
            IF ~isString(item)
            THEN [prev EXCEPT !.acc =
                     AddError(@, Diag("LAML_DOMAIN_INVALID_TYPE",
                                      NoPath, NoCycle))]
            ELSE [domains |-> Append(prev.domains, item.text),
                  acc |-> IF isValidDomainFormat(item.text)
                          THEN prev.acc
                          ELSE AddError(prev.acc,
                                   Diag("LAML_DOMAIN_INVALID_FORMAT",
                                        item.text, NoCycle))]
        L[i \in 0..Len(items)] ==
            IF i = 0 THEN [domains |-> <<>>, acc |-> acc]
            ELSE Item(L[i - 1], items[i])
    IN
    With(L[Len(items)], LAMBDA collected :
    With(Len(UniqueInOrder(collected.domains)) # Len(collected.domains),
         LAMBDA hasDup :
    With(IF hasDup THEN UniqueInOrder(collected.domains) ELSE collected.domains,
         LAMBDA domains :
    With(IF hasDup
         THEN [collected.acc EXCEPT !.ledger =
                 Push(@, Fix("Removed duplicate domains",
                             Join(Duplicates(collected.domains), <<",", " ">>),
                             <<>>, ""))]
         ELSE collected.acc, LAMBDA acc1 :
    With(IF Len(domains) > MaxDomains
         THEN AddError(acc1, Diag("LAML_DOMAINS_COUNT_EXCEEDED",
                                  K_domains, NoCycle))
         ELSE acc1, LAMBDA acc2 :
    With(findOverlappingDomains(domains), LAMBDA pairs :
    LET Overlap(prev, pair) ==
            AddError(prev, Diag("LAML_DOMAINS_OVERLAPPING", pair.domain1,
                                <<pair.domain1, pair.domain2>>))
        O[i \in 0..Len(pairs)] ==
            IF i = 0 THEN acc2 ELSE Overlap(O[i - 1], pairs[i])
    IN  [map |-> [metaMap EXCEPT !.items[di].value.items =
                     IF hasDup THEN RemoveDuplicateItems(items, collected.domains)
                     ELSE items],
         acc |-> O[Len(pairs)]]
    ))))))))

RequiredFields == <<K_name, K_purpose, K_version, K_spec, K_domains>>

\* defaults in which domains is not empty
DefaultValueWithDomain(field) ==
    IF field = K_domains
    THEN Seq_(TRUE, <<Scalar("str", T_untitled, "QUOTE_SINGLE")>>)
    ELSE Scalar("str", T_untitled, "QUOTE_SINGLE")

\* the synthesized default of a missing required field
DefaultValue(field) ==
    IF field = K_name THEN Str(T_untitled, "QUOTE_SINGLE")
    ELSE IF field = K_purpose THEN Str(T_lamlDocument, "QUOTE_DOUBLE")
    ELSE IF field = K_version THEN Scalar("num", T_one, "NONE")
    ELSE IF field = K_spec THEN Str(T_specPath, "QUOTE_DOUBLE")
    ELSE Seq_(FALSE, <<>>)

\* returns [value, acc], value = the (possibly completed) value of $meta
validateMetaSection(acc, metaValue) ==
    IF ~isMap(metaValue)
    THEN [value |-> metaValue,
          acc |-> AddError(acc, Diag("LAML_META_INVALID_TYPE", K_meta, NoCycle))]
    ELSE
    LET \* the body of "for (const field of requiredFields)"
        Field(prev, field) ==
            With(FindIndex(prev.map.items, field), LAMBDA fi :
                IF fi = 0
                THEN [map |-> [prev.map EXCEPT !.items =
                                  Append(@, Pair(field, DefaultValue(field)))],
                      acc |-> [prev.acc EXCEPT !.ledger =
                                  AutoFixAdd(@,
                                      Fix("Added missing required field",
                                          field, <<>>, ""))]]
                ELSE IF field # K_domains
                     THEN [map |-> prev.map,
                           acc |-> validateMetaFieldValue(prev.acc, field,
                                       prev.map.items[fi].value)]
                     ELSE prev)
        F[i \in 0..Len(RequiredFields)] ==
            IF i = 0 THEN [map |-> metaValue, acc |-> acc]
            ELSE Field(F[i - 1], RequiredFields[i])
    IN  With(F[Len(RequiredFields)], LAMBDA completed :
        With(validateDomainsField(completed.acc, completed.map), LAMBDA d :
            [value |-> d.map, acc |-> d.acc]))

\* a move that leaves the entry where it was
LeaveInPlace(items, i) == items

\* items.splice(i, 1) then items.unshift(item)
MoveToFront(items, i) == <<items[i]>> \o RemoveAt(items, i)

\* returns [contents, acc]
validateMandatorySections(acc, contents) ==
    IF ~isMap(contents)
    THEN [contents |-> contents,
          acc |-> AddError(acc, Diag("LAML_INVALID_ROOT_STRUCTURE", NoPath, NoCycle))]
    ELSE
    With(FindIndex(contents.items, K_meta), LAMBDA mi :
    With(IF mi = 0
         THEN <<Pair(K_meta, Map(FALSE, <<>>))>> \o contents.items
         ELSE contents.items, LAMBDA items0 :
    With(IF mi = 0
         THEN [acc EXCEPT !.ledger =
                 Push(@, Fix("Added missing $meta section", <<>>, <<>>, ""))]
         ELSE acc, LAMBDA acc0 :
    With(FindIndex(items0, K_meta), LAMBDA at :
    With(validateMetaSection(acc0, items0[at].value), LAMBDA v :
    With([items0 EXCEPT ![at].value = v.value], LAMBDA items1 :
    With(FindIndex(items1, K_meta), LAMBDA metaIndex :
        IF items1[1].key # K_meta /\ metaIndex > 1
        THEN [contents |-> [contents EXCEPT !.items = MoveToFront(items1, metaIndex)],
              acc |-> [v.acc EXCEPT !.ledger =
                         Push(@, Fix("Moved $meta section to first position",
                                     <<>>, <<>>, ""))]]
        ELSE [contents |-> [contents EXCEPT !.items = items1], acc |-> v.acc]
    )))))))

\* returns [contents, acc]
validateMetaPosition(acc, contents) ==
    IF ~isMap(contents) THEN [contents |-> contents, acc |-> acc]
    ELSE IF Len(contents.items) = 0 THEN [contents |-> contents, acc |-> acc]
    ELSE IF contents.items[1].key # K_meta
    THEN LET metaIndex == FindIndex(contents.items, K_meta)
         IN  IF metaIndex > 1
             THEN [contents |-> [contents EXCEPT !.items = MoveToFront(@, metaIndex)],
                   acc |-> [acc EXCEPT !.ledger =
                              AutoFixAdd(@,
                                  Fix("Moved $meta section to first position",
                                      <<>>, <<>>, ""))]]
             ELSE IF metaIndex = 0
                  THEN [contents |-> contents,
                        acc |-> AddError(acc, Diag("LAML_META_SECTION_MISSING",
                                                   NoPath, NoCycle))]
                  ELSE [contents |-> contents, acc |-> acc]
    ELSE [contents |-> contents, acc |-> acc]

----------------------------------------------------------------------------
(* Merge keys *)

\* a key written <<: instead of <<
isMergeKeyWithColon(key) == key = <<"<", "<", ":">>

\* yaml.isScalar(pair.key) && pair.key.value === '<<'
isMergeKey(key) == key = K_merge

\* the Pair visitor of validateYamlMergeKeys over the whole tree
RECURSIVE validateYamlMergeKeys(_, _)
validateYamlMergeKeys(acc, node) ==
    IF isMap(node)
    THEN LET F[i \in 0..Len(node.items)] ==
                 IF i = 0 THEN acc
                 ELSE validateYamlMergeKeys(
                          IF isMergeKey(node.items[i].key)
                          THEN AddError(F[i - 1],
                                   Diag("LAML_YAML_MERGE_KEY_INVALID",
                                        NoPath, NoCycle))
                          ELSE F[i - 1],
                          node.items[i].value)
         IN  F[Len(node.items)]
    ELSE IF isSeq(node)
    THEN LET F[i \in 0..Len(node.items)] ==
                 IF i = 0 THEN acc
                 ELSE validateYamlMergeKeys(F[i - 1], node.items[i])
         IN  F[Len(node.items)]
    ELSE acc

----------------------------------------------------------------------------
(* External documents *)

NullNode ==
    [kind |-> "null", vt |-> "none", text |-> <<>>, style |-> "NONE",
     flow |-> FALSE, items |-> <<>>]

P_ext == <<"e","x","t",".","m","d">>
P_gone == <<"g","o","n","e",".","m","d">>
K_shared == <<"s","h","a","r","e","d">>
K_value == <<"v","a","l","u","e">>
T_standard == <<"s","t","a","n","d","a","r","d">>

\* the files on disk that $refs entries can name: path -> parsed payload
ExternalFiles ==
    P_ext :> Map(FALSE, <<Pair(K_shared,
                   Map(FALSE, <<Pair(K_value, Str(T_standard, "QUOTE_SINGLE"))>>))>>)

\* path.resolve(baseDir, filePath) with the base directory of the run
ResolvePath(filePath) == filePath

\* returns the list of [key, path] declared under $refs
extractRefsSection(contents) ==
    IF ~isMap(contents) THEN <<>>
    ELSE LET ri == FindIndex(contents.items, K_refs) IN
         IF ri = 0 THEN <<>>
         ELSE IF ~isMap(contents.items[ri].value) THEN <<>>
         ELSE LET refsItems == contents.items[ri].value.items
                  F[i \in 0..Len(refsItems)] ==
                      IF i = 0 THEN <<>>
                      ELSE LET v == refsItems[i].value
                               pi == IF isMap(v) THEN FindIndex(v.items, K_path)
                                     ELSE 0
                           IN  IF pi # 0 /\ isString(v.items[pi].value)
                               THEN Append(F[i - 1],
                                        [key |-> refsItems[i].key,
                                         path |-> v.items[pi].value.text])
                               ELSE F[i - 1]
              IN  F[Len(refsItems)]

\* returns [doc, cache]; doc = NullNode stands for null
\* a loader that finds no file
loadNoDocument(filePath, cache) == [doc |-> NullNode, cache |-> cache]

\* no run is loading external documents
NoRuns == <<>>

\* a loader that reads the file whatever the cache holds
loadUncached(files, filePath, cache) ==
    LET resolvedPath == ResolvePath(filePath) IN
    IF resolvedPath \notin DOMAIN files
    THEN [doc |-> NullNode, cache |-> cache]
    ELSE [doc |-> files[resolvedPath],
          cache |-> [q \in DOMAIN cache \cup {resolvedPath} |->
                        IF q = resolvedPath THEN files[resolvedPath]
                        ELSE cache[q]]]

\* loadExternalDocument, with the file system it reads as a parameter
loadExternalDocumentFrom(files, filePath, cache) ==
    LET resolvedPath == ResolvePath(filePath) IN
    IF resolvedPath \in DOMAIN cache
    THEN [doc |-> cache[resolvedPath], cache |-> cache]
    ELSE IF resolvedPath \notin DOMAIN files
         THEN [doc |-> NullNode, cache |-> cache]
         ELSE [doc |-> files[resolvedPath],
               cache |-> cache @@ (resolvedPath :> files[resolvedPath])]

loadExternalDocument(filePath, cache) ==
    loadExternalDocumentFrom(ExternalFiles, filePath, cache)

\* returns [isExternal, refKey, localPath]
isExternalReference(refPath, externalRefs) ==
    IF ~StartsWith(refPath, T_extPrefix)
    THEN [isExternal |-> FALSE, refKey |-> <<>>, localPath |-> <<>>]
    ELSE LET segments == Split(Drop(refPath, 7), ".") IN
         IF Len(segments) < 2
         THEN [isExternal |-> FALSE, refKey |-> <<>>, localPath |-> <<>>]
         ELSE IF \E i \in 1..Len(externalRefs) : externalRefs[i].key = segments[1]
              THEN [isExternal |-> TRUE, refKey |-> segments[1],
                    localPath |-> Join(Tail(segments), <<".">>)]
              ELSE [isExternal |-> FALSE, refKey |-> <<>>, localPath |-> <<>>]

\* returns [isValid, error, cache]
validateExternalReference(refPath, externalRefs, cache) ==
    With(isExternalReference(refPath, externalRefs), LAMBDA info :
    IF ~info.isExternal \/ info.refKey = <<>> \/ info.localPath = <<>>
    THEN [isValid |-> FALSE, error |-> "Not a valid external reference",
          cache |-> cache]
    ELSE LET externalRef ==
                 externalRefs[CHOOSE i \in 1..Len(externalRefs) :
                     /\ externalRefs[i].key = info.refKey
                     /\ \A j \in 1..(i - 1) : externalRefs[j].key # info.refKey]
         IN  With(loadExternalDocument(externalRef.path, cache), LAMBDA loaded :
             IF loaded.doc = NullNode
             THEN [isValid |-> FALSE, error |-> "Cannot load external file",
                   cache |-> loaded.cache]
             ELSE IF ~referenceExists(loaded.doc, <<"*">> \o info.localPath)
                  THEN [isValid |-> FALSE,
                        error |-> "Reference not found in external file",
                        cache |-> loaded.cache]
                  ELSE [isValid |-> TRUE, error |-> "", cache |-> loaded.cache]))

validateRefsSection(acc, externalRefs) ==
    LET F[i \in 0..Len(externalRefs)] ==
            IF i = 0 THEN acc
            ELSE IF ResolvePath(externalRefs[i].path) \notin DOMAIN ExternalFiles
                 THEN AddError(F[i - 1], Diag("LAML_EXTERNAL_FILE_NOT_FOUND",
                                              externalRefs[i].path, NoCycle))
                 ELSE F[i - 1]
    IN  F[Len(externalRefs)]

----------------------------------------------------------------------------
(* Reference validation *)

\* the body of the loop over references; st = [acc, cache]
validateOneReference(st, contents, externalRefs, path) ==
    IF ~isValidReference(path)
    THEN [st EXCEPT !.acc = AddError(@,
             Diag("LAML_INVALID_REFERENCE_FORMAT", path, NoCycle))]
    ELSE IF isExternalReference(path, externalRefs).isExternal
    THEN With(validateExternalReference(path, externalRefs, st.cache),
              LAMBDA validation :
             [acc |-> IF validation.isValid THEN st.acc
                      ELSE AddError(st.acc,
                               DiagMsg("LAML_EXTERNAL_REFERENCE_NOT_FOUND",
                                       validation.error, path, NoCycle)),
              cache |-> validation.cache])
    ELSE IF StartsWith(path, T_extPrefix)
    THEN [st EXCEPT !.acc = AddError(@,
             DiagMsg("LAML_EXTERNAL_REFERENCE_NOT_FOUND",
                     "External reference key not found in $refs section",
                     path, NoCycle))]
    ELSE IF Includes(path, K_refs)
    THEN [st EXCEPT !.acc = AddError(@,
             DiagMsg("LAML_INVALID_REFERENCE_FORMAT",
                     "External references must use format", path, NoCycle))]
    ELSE IF ~referenceExists(contents, path)
    THEN [st EXCEPT !.acc = AddError(@,
             Diag("LAML_REFERENCE_NOT_FOUND", path, NoCycle))]
    ELSE st

\* returns [acc, cache]
validateReferences(acc, contents, cache) ==
    With(extractRefsSection(contents), LAMBDA externalRefs :
    With(findAllReferences(contents), LAMBDA references :
    LET acc0 == validateYamlMergeKeys(acc, contents)
        F[i \in 0..Len(references)] ==
            IF i = 0 THEN [acc |-> acc0, cache |-> cache]
            ELSE validateOneReference(F[i - 1], contents, externalRefs,
                                      references[i])
        internalReferences ==
            SelectSeq(references,
                LAMBDA r : ~isExternalReference(r, externalRefs).isExternal)
    IN
    With(findCircularReferences(contents, internalReferences),
         LAMBDA circularRefs :
    With(F[Len(references)], LAMBDA checked :
    LET Circular(prev, cycle) ==
            AddError(prev, Diag("LAML_CIRCULAR_REFERENCE", NoPath, cycle))
        C[i \in 0..Len(circularRefs)] ==
            IF i = 0 THEN checked.acc
            ELSE Circular(C[i - 1], circularRefs[i])
    IN  [acc |-> validateRefsSection(C[Len(circularRefs)], externalRefs),
         cache |-> checked.cache]
    ))))

----------------------------------------------------------------------------
(* Value-type validation *)

\* a limit of six words
MaxLiteralWordsSix == 5 + 1

MaxLiteralWords == 5

\* returns [value, acc]; value is the scalar of the pair
validateLiteralOrDescriptiveValue(acc, key, value) ==
    IF isLiteralValue(value.text)
    THEN IF WordCount(value.text) > MaxLiteralWords
         THEN [value |-> value,
               acc |-> AddError(acc, Diag("LAML_LITERAL_TOO_MANY_WORDS",
                                          value.text, NoCycle))]
         ELSE With(IF ~isProperLiteralFormat(value.text)
                   THEN AddWarning(acc,
                            Diag("LAML_LITERAL_FORMAT_WARNING",
                                 value.text, NoCycle))
                   ELSE acc, LAMBDA acc1 :
                  IF value.style # "QUOTE_SINGLE"
                  THEN [value |-> [value EXCEPT !.style = "QUOTE_SINGLE"],
                        acc |-> [acc1 EXCEPT !.ledger = AutoFixAdd(@,
                                   Fix("Fixed literal quote style",
                                       value.text, <<>>, value.style))]]
                  ELSE [value |-> value, acc |-> acc1])
    ELSE IF IsBlank(value.text)
         THEN [value |-> value,
               acc |-> AddError(acc, Diag("LAML_DESCRIPTIVE_EMPTY",
                                          value.text, NoCycle))]
         ELSE IF value.style # "QUOTE_DOUBLE"
              THEN [value |-> [value EXCEPT !.style = "QUOTE_DOUBLE"],
                    acc |-> [acc EXCEPT !.ledger = AutoFixAdd(@,
                               Fix("Fixed descriptive quote style",
                                   value.text, <<>>, value.style))]]
              ELSE [value |-> value, acc |-> acc]

\* a visitor that looks at the key before it looks at the value
visitPairBooleanFirst(acc, key, value) ==
    IF isScalar(value) /\ isBooleanTrigger(key) /\ value.vt = "str"
       /\ value.text \notin {T_true, T_yes, T_one, T_false, T_no, T_zero}
    THEN [value |-> value,
          acc |-> AddError(acc, Diag("LAML_INVALID_BOOLEAN_VALUE",
                                     key, NoCycle))]
    ELSE [value |-> value, acc |-> acc]

\* a visitor that looks at the pair and neither changes nor records anything
visitPairKeepValue(acc, key, value) == [value |-> value, acc |-> acc]

\* the Pair visitor of validateValueTypes; returns [value, acc]
visitPairValueType(acc, key, value) ==
    IF ~isScalar(value) THEN [value |-> value, acc |-> acc]
    ELSE IF value.vt = "str" /\ StartsWith(value.text, <<"*">>)
    THEN [value |-> value,
          acc |-> IF ~isValidReference(value.text)
                  THEN AddError(acc, Diag("LAML_INVALID_REFERENCE_FORMAT",
                                          value.text, NoCycle))
                  ELSE acc]
    ELSE IF isBooleanTrigger(key)
    THEN IF value.vt = "bool" THEN [value |-> value, acc |-> acc]
         ELSE IF value.vt = "str" /\ value.text \in {T_true, T_yes, T_one}
              THEN [value |-> Scalar("bool", T_true, "NONE"),
                    acc |-> [acc EXCEPT !.ledger = Push(@,
                               Fix("Fixed boolean value", key, value.text,
                                   "true"))]]
         ELSE IF value.vt = "str" /\ value.text \in {T_false, T_no, T_zero}
              THEN [value |-> Scalar("bool", T_false, "NONE"),
                    acc |-> [acc EXCEPT !.ledger = Push(@,
                               Fix("Fixed boolean value", key, value.text,
                                   "false"))]]
         ELSE [value |-> value,
               acc |-> AddError(acc, Diag("LAML_INVALID_BOOLEAN_VALUE",
                                          key, NoCycle))]
    ELSE IF value.vt = "str" /\ Len(value.text) > 0
    THEN validateLiteralOrDescriptiveValue(acc, key, value)
    ELSE [value |-> value, acc |-> acc]

\* yaml.visit with the Pair visitor, pre-order; returns [node, acc]
RECURSIVE validateValueTypes(_, _)
validateValueTypes(acc, node) ==
    IF isMap(node)
    THEN LET \* the visitor on one pair, then on the subtree of its value
             Entry(prev, pair) ==
                 With(visitPairValueType(prev.acc, pair.key, pair.value),
                      LAMBDA p :
                 With(validateValueTypes(p.acc, p.value), LAMBDA r :
                     [items |-> Append(prev.items, Pair(pair.key, r.node)),
                      acc |-> r.acc]))
             F[i \in 0..Len(node.items)] ==
                 IF i = 0 THEN [items |-> <<>>, acc |-> acc]
                 ELSE Entry(F[i - 1], node.items[i])
         IN  With(F[Len(node.items)], LAMBDA visited :
                 [node |-> [node EXCEPT !.items = visited.items],
                  acc |-> visited.acc])
    ELSE IF isSeq(node)
    THEN LET Element(prev, item) ==
                 With(validateValueTypes(prev.acc, item), LAMBDA r :
                     [items |-> Append(prev.items, r.node), acc |-> r.acc])
             F[i \in 0..Len(node.items)] ==
                 IF i = 0 THEN [items |-> <<>>, acc |-> acc]
                 ELSE Element(F[i - 1], node.items[i])
         IN  With(F[Len(node.items)], LAMBDA visited :
                 [node |-> [node EXCEPT !.items = visited.items],
                  acc |-> visited.acc])
    ELSE [node |-> node, acc |-> acc]

----------------------------------------------------------------------------
(* Alias conversion *)

\* findAliases: the anchor names of the Alias nodes, in visit order
RECURSIVE findAliases(_)
findAliases(node) ==
    IF isAlias(node) THEN <<node.text>>
    ELSE IF isMap(node)
    THEN LET F[i \in 0..Len(node.items)] ==
                 IF i = 0 THEN <<>>
                 ELSE F[i - 1] \o findAliases(node.items[i].value)
         IN  F[Len(node.items)]
    ELSE IF isSeq(node)
    THEN LET F[i \in 0..Len(node.items)] ==
                 IF i = 0 THEN <<>>
                 ELSE F[i - 1] \o findAliases(node.items[i])
         IN  F[Len(node.items)]
    ELSE <<>>

\* replaceAliasWithScalar applied to every alias: new yaml.Scalar("*" + name)
RECURSIVE replaceAliases(_)
replaceAliases(node) ==
    IF isAlias(node) THEN Str(<<"*">> \o node.text, "NONE")
    ELSE IF isMap(node)
    THEN [node EXCEPT !.items =
             [i \in 1..Len(node.items) |->
                 Pair(node.items[i].key, replaceAliases(node.items[i].value))]]
    ELSE IF isSeq(node)
    THEN [node EXCEPT !.items =
             [i \in 1..Len(node.items) |-> replaceAliases(node.items[i])]]
    ELSE node

\* returns [node, acc]
convertAliasesToReferences(acc, contents) ==
    LET aliases == findAliases(contents)
        F[i \in 0..Len(aliases)] ==
            IF i = 0 THEN acc.ledger
            ELSE AutoFixAdd(F[i - 1],
                     Fix("Converted YAML alias to LAML reference",
                         aliases[i], <<"*">> \o aliases[i], ""))
    IN  [node |-> replaceAliases(contents),
         acc |-> [acc EXCEPT !.ledger = F[Len(aliases)]]]

----------------------------------------------------------------------------
(* Layout normalization *)

MAX_INLINE_LENGTH == 50

\* JSON.stringify(node.value).length
JsonLength(node) ==
    IF node.vt = "str"
    THEN 2 + Len(node.text)
           + Cardinality({i \in 1..Len(node.text) :
                             node.text[i] \in {"\"", "\\", "\n"}})
    ELSE Len(node.text)

\* getNodeStringValue(node).length; getInlineMapString and
\* getInlineSequenceString are its map and seq branches
RECURSIVE InlineLength(_)
InlineLength(node) ==
    IF isScalar(node) THEN JsonLength(node)
    ELSE IF isMap(node)
    THEN LET n == Len(node.items)
             F[i \in 0..n] ==
                 IF i = 0 THEN 0
                 ELSE F[i - 1] + (2 + Len(node.items[i].key)) + 2
                               + InlineLength(node.items[i].value)
         IN  4 + F[n] + (IF n > 1 THEN 2 * (n - 1) ELSE 0)
    ELSE IF isSeq(node)
    THEN LET scalars == SelectSeq(node.items, LAMBDA it : isScalar(it))
             n == Len(scalars)
             F[i \in 0..n] ==
                 IF i = 0 THEN 0 ELSE F[i - 1] + InlineLength(scalars[i])
         IN  2 + F[n] + (IF n > 1 THEN 2 * (n - 1) ELSE 0)
    ELSE 1 + Len(node.text)

shouldBeInline(node) == InlineLength(node) <= MAX_INLINE_LENGTH

\* yaml.visit with the Map and Seq visitors, pre-order; returns [node, ledger]
RECURSIVE formatNode(_, _)
formatNode(ledger, node) ==
    IF isMap(node) \/ isSeq(node)
    THEN With(shouldBeInline(node), LAMBDA inline :
         With(Len(node.items) > 0 /\ inline # node.flow, LAMBDA flip :
         LET ledger1 ==
                 IF flip
                 THEN AutoFixAdd(ledger,
                          Fix(IF isMap(node)
                              THEN "Reformatted object structure for optimal readability"
                              ELSE "Reformatted array structure for optimal readability",
                              <<>>, <<>>, ""))
                 ELSE ledger
             \* the visitor on one child; item is a pair of a map or an
             \* element of a sequence
             Child(prev, item) ==
                 With(formatNode(prev.ledger,
                                 IF isMap(node) THEN item.value ELSE item),
                      LAMBDA r :
                     [items |-> Append(prev.items,
                                       IF isMap(node) THEN Pair(item.key, r.node)
                                       ELSE r.node),
                      ledger |-> r.ledger])
             F[i \in 0..Len(node.items)] ==
                 IF i = 0 THEN [items |-> <<>>, ledger |-> ledger1]
                 ELSE Child(F[i - 1], node.items[i])
         IN  With(F[Len(node.items)], LAMBDA visited :
                 [node |-> [node EXCEPT !.flow = IF flip THEN inline ELSE node.flow,
                                        !.items = visited.items],
                  ledger |-> visited.ledger])))
    ELSE [node |-> node, ledger |-> ledger]

\* returns [node, acc]
formatDataStructures(acc, contents) ==
    With(formatNode(acc.ledger, contents), LAMBDA r :
        [node |-> r.node, acc |-> [acc EXCEPT !.ledger = r.ledger]])

----------------------------------------------------------------------------
(* Serialization (Document.toString) and parsing (parseLaml) *)

\* /^-?[0-9]+(\.[0-9]+)?$/ : a plain scalar that resolves to a number
IsNumeric(text) ==
    LET body == IF StartsWith(text, <<"-">>) THEN Tail(text) ELSE text
        parts == Split(body, ".")
    IN  /\ Len(parts) \in 1..2
        /\ \A i \in 1..Len(parts) :
               Len(parts[i]) > 0 /\ Range(parts[i]) \subseteq Digit

PlainIndicators ==
    {"*", "&", "!", "|", ">", "'", "\"", "%", "@", "[", "]", "{", "}",
     ",", "#", "-", "?", ":"}

\* can the string be written as a plain scalar and read back as the same string
CanBePlain(text, inFlow) ==
    /\ Len(text) > 0
    /\ text[1] \notin PlainIndicators \cup {" "}
    /\ text[Len(text)] # " "
    /\ ~Includes(text, <<":"," ">>)
    /\ ~Includes(text, <<" ","#">>)
    /\ "\n" \notin Range(text)
    /\ text \notin {T_true, T_false, T_NULL}
    /\ ~IsNumeric(text)
    /\ inFlow => Range(text) \cap {"[", "]", "{", "}", ","} = {}

\* the style a scalar is written in
WrittenStyle(node, inFlow) ==
    IF node.vt # "str" THEN "PLAIN"
    ELSE IF node.style \in {"QUOTE_SINGLE", "QUOTE_DOUBLE"} THEN node.style
    ELSE IF CanBePlain(node.text, inFlow) THEN "PLAIN"
    ELSE "QUOTE_DOUBLE"

\* Document.toString(): the text, held as the tree of its tokens.  A
\* collection nested in a flow collection is written in flow style, and an
\* empty collection is written {} or [].
RECURSIVE Stringify(_, _)
Stringify(node, inFlow) ==
    IF isScalar(node)
    THEN [node EXCEPT !.style = WrittenStyle(node, inFlow)]
    ELSE IF isMap(node)
    THEN LET flow == inFlow \/ node.flow \/ Len(node.items) = 0
         IN  [node EXCEPT !.flow = flow,
                          !.items = [i \in 1..Len(node.items) |->
                              Pair(node.items[i].key,
                                   Stringify(node.items[i].value, flow))]]
    ELSE IF isSeq(node)
    THEN LET flow == inFlow \/ node.flow \/ Len(node.items) = 0
         IN  [node EXCEPT !.flow = flow,
                          !.items = [i \in 1..Len(node.items) |->
                              Stringify(node.items[i], flow)]]
    ELSE node

\* the value type a scalar token resolves to (core schema)
ResolvedType(style, text) ==
    IF style # "PLAIN" THEN "str"
    ELSE IF text \in {T_true, T_false} THEN "bool"
    ELSE IF text = T_NULL \/ Len(text) = 0 THEN "null"
    ELSE IF IsNumeric(text) THEN "num"
    ELSE "str"

\* yaml.parseDocument on a well-formed text
RECURSIVE ParseYaml(_)
ParseYaml(text) ==
    IF isScalar(text)
    THEN [text EXCEPT !.vt = ResolvedType(text.style, text.text)]
    ELSE IF isMap(text)
    THEN [text EXCEPT !.items = [i \in 1..Len(text.items) |->
             Pair(text.items[i].key, ParseYaml(text.items[i].value))]]
    ELSE IF isSeq(text)
    THEN [text EXCEPT !.items = [i \in 1..Len(text.items) |->
             ParseYaml(text.items[i])]]
    ELSE text

\* a returned text: the YAML, inside a ```yaml fence or not
Text(fenced, yaml) == [present |-> TRUE, fenced |-> fenced, yaml |-> yaml]
NoText == [present |-> FALSE, fenced |-> FALSE, yaml |-> NullNode]

----------------------------------------------------------------------------
(* The documents validateLaml is run on *)

K_section1 == <<"s","e","c","t","i","o","n","1">>
K_section2 == <<"s","e","c","t","i","o","n","2">>
K_section3 == <<"s","e","c","t","i","o","n","3">>
K_property == <<"p","r","o","p","e","r","t","y">>
K_ref == <<"r","e","f">>
K_hasFlag == <<"h","a","s","F","l","a","g">>
K_type == <<"t","y","p","e">>
K_baseFormat == <<"b","a","s","e","F","o","r","m","a","t">>
K_items == <<"i","t","e","m","s">>
K_ext == <<"e","x","t">>
T_value == <<"v","a","l","u","e">>
T_Value == <<"V","a","l","u","e">>
T_testDoc == <<"t","e","s","t","D","o","c">>
T_testDocument == <<"T","e","s","t"," ","d","o","c","u","m","e","n","t">>
T_testDomain == <<"t","e","s","t",".","d","o","m","a","i","n">>
T_format == <<"f","o","r","m","a","t">>
T_refSection1 == <<"*","s","e","c","t","i","o","n","1",".","r","e","f">>
T_refSection2 == <<"*","s","e","c","t","i","o","n","2",".","r","e","f">>
T_refProperty == <<"*","s","e","c","t","i","o","n","1",".","p","r","o","p","e","r","t","y">>
T_refExternal == <<"*","$","r","e","f","s",".","e","x","t",".","s","h","a","r","e","d",".","v","a","l","u","e">>

\* a complete, well-laid-out $meta section
ValidMeta ==
    Pair(K_meta, Map(FALSE, <<
        Pair(K_name, Str(T_testDoc, "QUOTE_SINGLE")),
        Pair(K_purpose, Str(T_testDocument, "QUOTE_DOUBLE")),
        Pair(K_version, Num(T_one)),
        Pair(K_spec, Str(T_specPath, "QUOTE_SINGLE")),
        Pair(K_domains, Seq_(TRUE, <<Str(T_testDomain, "QUOTE_SINGLE")>>)) >>))

\* $meta with only a name
PartialMeta ==
    Pair(K_meta, Map(TRUE, <<Pair(K_name, Str(T_testDoc, "QUOTE_SINGLE"))>>))

\* $meta that is not a mapping
ScalarMeta == Pair(K_meta, Str(T_testDoc, "QUOTE_SINGLE"))

MetaChoices == {"absent", "first", "last", "partial", "scalar"}

\* section1: the entries a document can carry under that key
Section1Choices ==
    { <<>>,
      \* section1:\n  property: 'value'
      <<Pair(K_section1, Map(FALSE, <<Pair(K_property,
                                          Str(T_value, "QUOTE_SINGLE"))>>))>>,
      \* section1: { property: 'value' }
      <<Pair(K_section1, Map(TRUE, <<Pair(K_property,
                                         Str(T_value, "QUOTE_SINGLE"))>>))>>,
      \* section1: { ref: '*section2.ref' }
      <<Pair(K_section1, Map(TRUE, <<Pair(K_ref,
                                         Str(T_refSection2, "QUOTE_SINGLE"))>>))>>,
      \* section1: { hasFlag: 'true' }
      <<Pair(K_section1, Map(TRUE, <<Pair(K_hasFlag,
                                         Str(T_true, "QUOTE_SINGLE"))>>))>>,
      \* section1: { baseFormat: &format 'standard', type: *format }
      <<Pair(K_section1, Map(TRUE, <<Pair(K_baseFormat,
                                         Str(T_standard, "QUOTE_SINGLE")),
                                    Pair(K_type, Alias(T_format))>>))>> }

Section2Choices ==
    { <<>>,
      \* section2: { ref: '*section1.ref' }
      <<Pair(K_section2, Map(TRUE, <<Pair(K_ref,
                                         Str(T_refSection1, "QUOTE_SINGLE"))>>))>>,
      \* section2: { hasFlag: 'true' }
      <<Pair(K_section2, Map(TRUE, <<Pair(K_hasFlag,
                                         Str(T_true, "QUOTE_SINGLE"))>>))>>,
      \* section2: { <<: { property: 'value' } }
      <<Pair(K_section2, Map(TRUE, <<Pair(K_merge,
               Map(TRUE, <<Pair(K_property,
                                Str(T_value, "QUOTE_SINGLE"))>>))>>))>>,
      \* section2: { items: [ { <<: 'value' } ] }
      <<Pair(K_section2, Map(TRUE, <<Pair(K_items,
               Seq_(TRUE, <<Map(TRUE, <<Pair(K_merge,
                                Str(T_value, "QUOTE_SINGLE"))>>)>>))>>))>>,
      \* section2: { property: 'Value' }
      <<Pair(K_section2, Map(TRUE, <<Pair(K_property,
                                         Str(T_Value, "QUOTE_SINGLE"))>>))>>,
      \* section2: { ref: '*section1.property' }
      <<Pair(K_section2, Map(TRUE, <<Pair(K_ref,
                                         Str(T_refProperty, "QUOTE_SINGLE"))>>))>> }

ExtraChoices ==
    { <<>>,
      \* <<: { property: 'value' }   at the root
      <<Pair(K_merge, Map(TRUE, <<Pair(K_property,
                                      Str(T_value, "QUOTE_SINGLE"))>>))>>,
      \* $refs: { ext: { path: 'ext.md' } }
      \* section3: { ref: '*$refs.ext.shared.value' }
      <<Pair(K_refs, Map(TRUE, <<Pair(K_ext,
               Map(TRUE, <<Pair(K_path, Str(P_ext, "QUOTE_SINGLE"))>>))>>)),
        Pair(K_section3, Map(TRUE, <<Pair(K_ref,
               Str(T_refExternal, "QUOTE_SINGLE"))>>))>> }

\* the root mapping assembled from one choice of each kind
RootMap(meta, s1, s2, extra) ==
    LET body == s1 \o s2 \o extra
    IN  Map(meta = "absent" /\ body = <<>>,
            CASE meta = "absent"  -> body
              [] meta = "first"   -> <<ValidMeta>> \o body
              [] meta = "last"    -> body \o <<ValidMeta>>
              [] meta = "partial" -> <<PartialMeta>> \o body
              [] meta = "scalar"  -> <<ScalarMeta>> \o body)

Documents ==
    { RootMap(meta, s1, s2, extra) :
          meta \in MetaChoices, s1 \in Section1Choices,
          s2 \in Section2Choices, extra \in ExtraChoices }
    \cup { Seq_(FALSE, <<Str(T_value, "PLAIN")>>) }

\* ast.errors of the parse: none, one syntax error, one error whose message
\* mentions the merge key
ParseErrors == { <<>>, <<"syntax">>, <<"merge">> }

\* the (originalContent, ast.errors) pairs a caller passes with a parsed document
Envelopes ==
    { [content |-> "none", errors |-> e] : e \in ParseErrors }
    \cup { [content |-> c, errors |-> <<>>] : c \in {"fenced", "unwrapped"} }
    \cup { [content |-> "unwrapped", errors |-> <<"syntax">>] }

----------------------------------------------------------------------------
(* validateLaml as a state machine *)

\* validateLaml called directly: no file and no handler frame are involved
NoFile == [kind |-> "none", content |-> "none"]

\* handleLoadLaml has not returned
NoResponse ==
    [returned |-> FALSE, empty |-> FALSE, content |-> NullNode,
     autoFixedIssues |-> <<>>, isValid |-> FALSE]

NoLoad == [path |-> "none", reads |-> 0, writes |-> 0, response |-> NoResponse]

MaxRuns == 2

NoResult ==
    [isValid |-> FALSE, hasDocument |-> FALSE, fixedSource |-> NullNode,
     fixedContent |-> NoText, autoFixedIssues |-> <<>>]

NoPrevious ==
    [result |-> NoResult, errors |-> <<>>, warnings |-> <<>>]

Acc == [errors |-> sessionErrors, warnings |-> sessionWarnings,
        ledger |-> autoFixedIssues]

\* writes back what a validator recorded
Record(acc) ==
    /\ sessionErrors' = acc.errors
    /\ sessionWarnings' = acc.warnings
    /\ autoFixedIssues' = acc.ledger

Init ==
    /\ \/ /\ parseResult = [ast |-> NullNode, errors |-> <<>>]
          /\ originalContent \in {"none", "unwrapped"}
       \/ \E d \in Documents, e \in Envelopes :
             /\ parseResult = [ast |-> d, errors |-> e.errors]
             /\ originalContent = e.content
    /\ document = NullNode
    /\ sessionErrors = <<>>
    /\ sessionWarnings = <<>>
    /\ autoFixedIssues = <<>>
    /\ fixedContent = NoText
    /\ pc = "start"
    /\ result = NoResult
    /\ run = 1
    /\ previous = NoPrevious
    /\ externalDocumentCache = <<>>
    /\ externalFiles = ExternalFiles
    /\ runs = NoRuns
    /\ disk = NoFile
    /\ load = NoLoad

\* validateYamlWrapping and the re-parse of the wrapped content
ValidateYamlWrapping ==
    /\ pc = "start"
    /\ IF originalContent = "unwrapped"
       THEN /\ autoFixedIssues' = AutoFixAdd(autoFixedIssues,
                   Fix("Wrapped content in yaml blocks", <<>>, <<>>, ""))
            /\ fixedContent' = Text(TRUE, NullNode)
       ELSE UNCHANGED <<autoFixedIssues, fixedContent>>
    /\ pc' = "parsed"
    /\ UNCHANGED <<disk, load, externalFiles, runs>>
    /\ UNCHANGED <<originalContent, parseResult, document, sessionErrors,
                   sessionWarnings, result, run, previous,
                   externalDocumentCache>>

\* if (!parseResult.ast): LAML_PARSE_FAILED and return
ParseFailed ==
    /\ pc = "parsed"
    /\ parseResult.ast = NullNode
    /\ sessionErrors' = Append(sessionErrors,
                               Diag("LAML_PARSE_FAILED", NoPath, NoCycle))
    /\ result' = [isValid |-> FALSE, hasDocument |-> FALSE,
                  fixedSource |-> NullNode, fixedContent |-> fixedContent,
                  autoFixedIssues |-> autoFixedIssues]
    /\ pc' = "done"
    /\ UNCHANGED <<disk, load, externalFiles, runs>>
    /\ UNCHANGED <<originalContent, parseResult, document, sessionWarnings,
                   autoFixedIssues, fixedContent, run, previous,
                   externalDocumentCache>>

\* one diagnostic per entry of ast.errors
SyntaxDiagnostics(errors) ==
    [i \in 1..Len(errors) |->
        IF errors[i] = "merge"
        THEN Diag("LAML_YAML_MERGE_KEY_INVALID", NoPath, NoCycle)
        ELSE Diag("LAML_YAML_SYNTAX_ERROR", NoPath, NoCycle)]

\* the context is built on the parsed document; ast.errors are reported
CheckSyntaxErrors ==
    /\ pc = "parsed"
    /\ parseResult.ast # NullNode
    /\ document' = parseResult.ast
    /\ sessionErrors' = sessionErrors \o SyntaxDiagnostics(parseResult.errors)
    /\ pc' = "mandatorySections"
    /\ UNCHANGED <<disk, load, externalFiles, runs>>
    /\ UNCHANGED <<originalContent, parseResult, sessionWarnings,
                   autoFixedIssues, fixedContent, result, run, previous,
                   externalDocumentCache>>

ValidateMandatorySections ==
    /\ pc = "mandatorySections"
    /\ \E r \in {validateMandatorySections(Acc, document)} :
           document' = r.contents /\ Record(r.acc)
    /\ pc' = "metaPosition"
    /\ UNCHANGED <<disk, load, externalFiles, runs>>
    /\ UNCHANGED <<originalContent, parseResult, fixedContent, result, run,
                   previous, externalDocumentCache>>

ValidateMetaPosition ==
    /\ pc = "metaPosition"
    /\ \E r \in {validateMetaPosition(Acc, document)} :
           document' = r.contents /\ Record(r.acc)
    /\ pc' = "mergeKeys"
    /\ UNCHANGED <<disk, load, externalFiles, runs>>
    /\ UNCHANGED <<originalContent, parseResult, fixedContent, result, run,
                   previous, externalDocumentCache>>

\* a run that goes from the merge-key check straight to value types
ValidateYamlMergeKeysSkipping ==
    /\ pc = "mergeKeys"
    /\ Record(validateYamlMergeKeys(Acc, document))
    /\ pc' = "valueTypes"
    /\ UNCHANGED <<disk, load, externalFiles, runs>>
    /\ UNCHANGED <<originalContent, parseResult, document, fixedContent,
                   result, run, previous, externalDocumentCache>>

ValidateYamlMergeKeys ==
    /\ pc = "mergeKeys"
    /\ Record(validateYamlMergeKeys(Acc, document))
    /\ pc' = "references"
    /\ UNCHANGED <<disk, load, externalFiles, runs>>
    /\ UNCHANGED <<originalContent, parseResult, document, fixedContent,
                   result, run, previous, externalDocumentCache>>

\* a run that returns at the reference stage once something was reported
ValidateReferencesUnlessErrors ==
    /\ pc = "references"
    /\ IF Len(sessionErrors) = 0
       THEN /\ \E r \in {validateReferences(Acc, document,
                                             externalDocumentCache)} :
                   Record(r.acc) /\ externalDocumentCache' = r.cache
            /\ pc' = "valueTypes"
       ELSE /\ pc' = "return"
            /\ UNCHANGED <<sessionErrors, sessionWarnings, autoFixedIssues,
                           externalDocumentCache>>
    /\ UNCHANGED <<disk, load, externalFiles, runs>>
    /\ UNCHANGED <<originalContent, parseResult, document, fixedContent,
                   result, run, previous>>

ValidateReferences ==
    /\ pc = "references"
    /\ \E r \in {validateReferences(Acc, document, externalDocumentCache)} :
           Record(r.acc) /\ externalDocumentCache' = r.cache
    /\ pc' = "valueTypes"
    /\ UNCHANGED <<disk, load, externalFiles, runs>>
    /\ UNCHANGED <<originalContent, parseResult, document, fixedContent,
                   result, run, previous>>

ValidateValueTypes ==
    /\ pc = "valueTypes"
    /\ \E r \in {validateValueTypes(Acc, document)} :
           document' = r.node /\ Record(r.acc)
    /\ pc' = "aliases"
    /\ UNCHANGED <<disk, load, externalFiles, runs>>
    /\ UNCHANGED <<originalContent, parseResult, fixedContent, result, run,
                   previous, externalDocumentCache>>

ConvertAliasesToReferences ==
    /\ pc = "aliases"
    /\ \E r \in {convertAliasesToReferences(Acc, document)} :
           document' = r.node /\ Record(r.acc)
    /\ pc' = "structurePrinciples"
    /\ UNCHANGED <<disk, load, externalFiles, runs>>
    /\ UNCHANGED <<originalContent, parseResult, fixedContent, result, run,
                   previous, externalDocumentCache>>

\* validateStructurePrinciples records nothing
ValidateStructurePrinciples ==
    /\ pc = "structurePrinciples"
    /\ pc' = "format"
    /\ UNCHANGED <<disk, load, externalFiles, runs>>
    /\ UNCHANGED <<originalContent, parseResult, document, sessionErrors,
                   sessionWarnings, autoFixedIssues, fixedContent, result,
                   run, previous, externalDocumentCache>>

FormatDataStructures ==
    /\ pc = "format"
    /\ \E r \in {formatDataStructures(Acc, document)} :
           document' = r.node /\ Record(r.acc)
    /\ pc' = "return"
    /\ UNCHANGED <<disk, load, externalFiles, runs>>
    /\ UNCHANGED <<originalContent, parseResult, fixedContent, result, run,
                   previous, externalDocumentCache>>

\* a serializer that never refuses
AlwaysStringify == TRUE

\* Document.toString() throws when the document carries parse errors
CanStringify == Len(parseResult.errors) = 0

\* a verdict that tolerates one error
isValidUpToOne(errors) == Len(errors) <= 1

isValid(errors) == Len(errors) = 0

\* the tail of validateLaml: verdict, serialization, the returned record
ReturnResult(errors, ledger, contents, wrapped) ==
    With(IF Len(ledger) > 0 /\ CanStringify
         THEN Stringify(contents, FALSE)
         ELSE NullNode,
         LAMBDA fixedSource :
             [isValid |-> isValid(errors),
              hasDocument |-> Len(ledger) > 0,
              fixedSource |-> fixedSource,
              fixedContent |->
                  IF fixedSource = NullNode THEN wrapped
                  ELSE IF wrapped.present THEN Text(TRUE, fixedSource)
                  ELSE Text(FALSE, fixedSource),
              autoFixedIssues |-> ledger])

Return ==
    /\ pc = "return"
    /\ result' = ReturnResult(sessionErrors, autoFixedIssues, document,
                              fixedContent)
    /\ pc' = "done"
    /\ UNCHANGED <<disk, load, externalFiles, runs>>
    /\ UNCHANGED <<originalContent, parseResult, document, sessionErrors,
                   sessionWarnings, autoFixedIssues, fixedContent, run,
                   previous, externalDocumentCache>>

\* the caller validates the corrected text it was handed, with a new session
Refeed ==
    /\ pc = "done"
    /\ run < MaxRuns
    /\ result.fixedContent.present
    /\ result.fixedContent.yaml # NullNode
    /\ previous' = [result |-> result, errors |-> sessionErrors,
                    warnings |-> sessionWarnings]
    /\ parseResult' = [ast |-> ParseYaml(result.fixedContent.yaml),
                       errors |-> <<>>]
    /\ originalContent' = IF originalContent = "none" THEN "none"
                          ELSE IF result.fixedContent.fenced THEN "fenced"
                          ELSE "unwrapped"
    /\ document' = NullNode
    /\ sessionErrors' = <<>>
    /\ sessionWarnings' = <<>>
    /\ autoFixedIssues' = <<>>
    /\ fixedContent' = NoText
    /\ result' = NoResult
    /\ run' = run + 1
    /\ pc' = "start"
    /\ UNCHANGED <<disk, load, externalFiles, runs>>
    /\ UNCHANGED externalDocumentCache

Next ==
    \/ ValidateYamlWrapping
    \/ ParseFailed
    \/ CheckSyntaxErrors
    \/ ValidateMandatorySections
    \/ ValidateMetaPosition
    \/ ValidateYamlMergeKeys
    \/ ValidateReferences
    \/ ValidateValueTypes
    \/ ConvertAliasesToReferences
    \/ ValidateStructurePrinciples
    \/ FormatDataStructures
    \/ Return
    \/ Refeed

Spec == Init /\ [][Next]_vars

----------------------------------------------------------------------------
(* Properties *)

Done == pc = "done"

\* the ledger returned holds an entry with this message
Recorded(ledger, msg) == \E i \in 1..Len(ledger) : ledger[i].msg = msg

ErrorCodes == {sessionErrors[i].code : i \in 1..Len(sessionErrors)}

\* codes of diagnostics that report file access, not the document
IOCodes == {"LAML_PARSE_FAILED", "LAML_EXTERNAL_FILE_NOT_FOUND"}

Diagnostics(errors, warnings) ==
    {d \in Range(errors) \cup Range(warnings) : d.code \notin IOCodes}

\* the path names an entry, walking mappings from the given node
RECURSIVE PathDeclared(_, _)
PathDeclared(node, segs) ==
    \/ segs = <<>>
    \/ /\ isMap(node)
       /\ \E i \in 1..Len(node.items) :
              /\ node.items[i].key = segs[1]
              /\ \A j \in 1..(i - 1) : node.items[j].key # segs[1]
              /\ PathDeclared(node.items[i].value, Tail(segs))

\* the value an entry holds at a two-segment path, NullNode when absent
ValueAt(doc, section, property) ==
    IF isMap(doc) /\ FindIndex(doc.items, section) # 0
    THEN LET v == doc.items[FindIndex(doc.items, section)].value
         IN  IF isMap(v) /\ FindIndex(v.items, property) # 0
             THEN v.items[FindIndex(v.items, property)].value
             ELSE NullNode
    ELSE NullNode

\* *seg(.seg)* with segments [a-zA-Z][a-zA-Z0-9]*
InternalGrammar(r) ==
    /\ StartsWith(r, <<"*">>)
    /\ LET segs == Split(Drop(r, 1), ".")
       IN  \A i \in 1..Len(segs) : IsIdent(segs[i])

\* *$refs.key.seg(.seg)*
ExternalGrammar(r) ==
    /\ StartsWith(r, T_extPrefix)
    /\ LET segs == Split(Drop(r, Len(T_extPrefix)), ".")
       IN  Len(segs) >= 2 /\ \A i \in 1..Len(segs) : IsIdent(segs[i])

\* an internal reference names an entry of the document; an external one
\* names an entry of the file its $refs key declares
Resolves(doc, r) ==
    IF InternalGrammar(r)
    THEN PathDeclared(doc, Split(Drop(r, 1), "."))
    ELSE LET segs == Split(Drop(r, Len(T_extPrefix)), ".")
             declared == ValueAt(doc, K_refs, segs[1])
             file == IF isMap(declared) /\ FindIndex(declared.items, K_path) # 0
                     THEN declared.items[FindIndex(declared.items, K_path)]
                              .value.text
                     ELSE <<>>
         IN  /\ file \in DOMAIN ExternalFiles
             /\ PathDeclared(ExternalFiles[file], Tail(segs))

References(doc) == Range(findAllReferences(doc))

\* the references alias conversion writes for the parsed document
ConvertedAliases ==
    {<<"*">> \o a : a \in Range(findAliases(parseResult.ast))}

\* a mapping entry with the key << somewhere in the tree
RECURSIVE HasMergeKey(_)
HasMergeKey(node) ==
    IF isMap(node)
    THEN \E i \in 1..Len(node.items) :
             node.items[i].key = K_merge \/ HasMergeKey(node.items[i].value)
    ELSE IF isSeq(node)
    THEN \E i \in 1..Len(node.items) : HasMergeKey(node.items[i])
    ELSE FALSE

\* C1: feeding the corrected text of a run back through the engine yields
\* an empty corrections list and the same set of diagnostics as that run
\* (I/O codes left out).
C1_Idempotent ==
    (Done /\ run > 1) =>
        /\ result.autoFixedIssues = <<>>
        /\ Diagnostics(sessionErrors, sessionWarnings)
             = Diagnostics(previous.errors, previous.warnings)

\* C2: the verdict is valid exactly when no error was recorded during the
\* run, whatever warnings and corrections were recorded.
C2_VerdictIffNoErrors ==
    Done => (result.isValid <=> sessionErrors = <<>>)

\* a valid run that recorded a warning and applied corrections
C2_Witness ==
    /\ Done
    /\ result.isValid
    /\ sessionWarnings # <<>>
    /\ result.autoFixedIssues # <<>>

\* C3 as stated: the result holds corrected text if and only if at least
\* one correction was applied.
C3_TextIffCorrection ==
    Done => (result.fixedContent.present <=> result.autoFixedIssues # <<>>)

\* C3: the result holds corrected text if and only if at least one
\* correction was applied and either the parsed document carries no syntax
\* error (it can be serialized) or the fence-wrapping fix produced text;
\* errors recorded by the validators do not matter.
C3_TextIffCorrectionSerializable ==
    Done =>
        (result.fixedContent.present <=>
            /\ result.autoFixedIssues # <<>>
            /\ \/ parseResult.errors = <<>>
               \/ Recorded(result.autoFixedIssues,
                           "Wrapped content in yaml blocks"))

\* an invalid run that applied corrections and returned corrected text
C3_Witness ==
    /\ Done
    /\ ~result.isValid
    /\ sessionErrors # <<>>
    /\ result.autoFixedIssues # <<>>
    /\ result.fixedContent.present
    /\ result.fixedContent.yaml # NullNode

\* C4: the corrections list returned by a run holds no two equal entries.
C4_NoDuplicateCorrections ==
    Done =>
        \A i, j \in 1..Len(result.autoFixedIssues) :
            i # j => result.autoFixedIssues[i] # result.autoFixedIssues[j]

\* the stages that follow structural validation
AfterStructure ==
    {"metaPosition", "mergeKeys", "references", "valueTypes", "aliases",
     "structurePrinciples", "format", "return", "done"}

\* C5: after structural validation of a document whose root is a mapping,
\* $meta is the first entry of the root: added when it was absent, moved
\* when it stood elsewhere, and the ledger says which.
C5_MetaFirst ==
    (pc \in AfterStructure /\ isMap(document)) =>
        /\ document.items[1].key = K_meta
        /\ FindIndex(parseResult.ast.items, K_meta) = 0
             => Recorded(autoFixedIssues, "Added missing $meta section")
        /\ FindIndex(parseResult.ast.items, K_meta) > 1
             => Recorded(autoFixedIssues,
                         "Moved $meta section to first position")

\* structural validation has just moved a $meta that stood last
C5_Witness ==
    /\ pc = "metaPosition"
    /\ isMap(document)
    /\ FindIndex(parseResult.ast.items, K_meta) > 1
    /\ document.items[1].key = K_meta
    /\ Recorded(autoFixedIssues, "Moved $meta section to first position")

\* the document  section1:\n  property: 'value'\n
C6_Input ==
    Map(FALSE, <<Pair(K_section1,
                      Map(FALSE, <<Pair(K_property,
                                        Str(T_value, "QUOTE_SINGLE"))>>))>>)

\* C6: on that input the run is invalid, the corrections hold "Added
\* missing $meta section" and one entry for each of name, purpose, version,
\* spec and domains, and the corrected text starts with $meta.
C6_EndToEnd ==
    (Done /\ run = 1 /\ parseResult.ast = C6_Input /\ parseResult.errors = <<>>)
    =>  /\ ~result.isValid
        /\ Recorded(result.autoFixedIssues, "Added missing $meta section")
        /\ \A f \in {K_name, K_purpose, K_version, K_spec, K_domains} :
               Cardinality({i \in 1..Len(result.autoFixedIssues) :
                   /\ result.autoFixedIssues[i].msg
                          = "Added missing required field"
                   /\ result.autoFixedIssues[i].a = f}) = 1
        /\ result.fixedContent.present
        /\ isMap(result.fixedContent.yaml)
        /\ result.fixedContent.yaml.items[1].key = K_meta

\* the run on that input has returned
C6_Witness ==
    /\ Done
    /\ run = 1
    /\ parseResult.ast = C6_Input
    /\ parseResult.errors = <<>>
    /\ originalContent = "none"
    /\ result.fixedSource # NullNode

ReferenceErrorCodes ==
    {"LAML_INVALID_REFERENCE_FORMAT", "LAML_REFERENCE_NOT_FOUND",
     "LAML_EXTERNAL_REFERENCE_NOT_FOUND"}

Occurrences(refs, r) == Cardinality({i \in 1..Len(refs) : refs[i] = r})

\* section1.ref holds *section2.ref, section2.ref holds *section1.ref, and
\* no other scalar holds either text
CyclePair(doc) ==
    /\ ValueAt(doc, K_section1, K_ref) = Str(T_refSection2, "QUOTE_SINGLE")
    /\ ValueAt(doc, K_section2, K_ref) = Str(T_refSection1, "QUOTE_SINGLE")
    /\ Occurrences(findAllReferences(doc), T_refSection1) = 1
    /\ Occurrences(findAllReferences(doc), T_refSection2) = 1

CircularDiagnostics ==
    SelectSeq(sessionErrors, LAMBDA d : d.code = "LAML_CIRCULAR_REFERENCE")

\* C9: a document in which section1.ref holds *section2.ref and
\* section2.ref holds *section1.ref gets exactly one circular-reference
\* diagnostic, whose cycle list has at least 2 elements.
C9_OneCycleDiagnostic ==
    (Done /\ CyclePair(document)) =>
        /\ Len(CircularDiagnostics) = 1
        /\ Len(CircularDiagnostics[1].cycle) >= 2

\* a run on such a document has returned
C9_Witness ==
    /\ Done
    /\ CyclePair(document)
    /\ Len(CircularDiagnostics) = 1

\* C10: a parsed document holding a << entry at any depth is returned
\* invalid, with a diagnostic carrying the merge-key code.
C10_MergeKeyRejected ==
    (Done /\ HasMergeKey(parseResult.ast)) =>
        /\ ~result.isValid
        /\ "LAML_YAML_MERGE_KEY_INVALID" \in ErrorCodes

\* a run on a document whose only fault is a << entry inside a sequence
C10_Witness ==
    /\ Done
    /\ HasMergeKey(parseResult.ast)
    /\ ~\E i \in 1..Len(parseResult.ast.items) :
           parseResult.ast.items[i].key = K_merge
    /\ ValueAt(parseResult.ast, K_section2, K_items) # NullNode
    /\ ErrorCodes = {"LAML_YAML_MERGE_KEY_INVALID"}

----------------------------------------------------------------------------
(* Value-type validation applied to a section of boolean-trigger entries *)

K_flags == <<"f","l","a","g","s">>
K_IsOn == <<"I","s","O","n">>
T_maybe == <<"m","a","y","b","e">>
T_star == <<"*">>

TrueTexts == {T_true, T_yes, T_one}
FalseTexts == {T_false, T_no, T_zero}

\* the values an entry of the flags section is written with
FlagValues ==
    {Str(t, "QUOTE_SINGLE") :
        t \in TrueTexts \cup FalseTexts \cup {T_maybe, <<>>, T_refProperty, T_star}}
    \cup {Str(T_maybe, "PLAIN"), Bool(TRUE), Bool(FALSE), Num(T_one),
          Str(T_refProperty, "QUOTE_DOUBLE")}

\* $meta, section1 and  flags: { hasFlag: v1, IsOn: v2 }
FlagsDocument(v1, v2) ==
    Map(FALSE, <<ValidMeta,
                 Pair(K_section1, Map(TRUE, <<Pair(K_property,
                                          Str(T_value, "QUOTE_SINGLE"))>>)),
                 Pair(K_flags, Map(FALSE, <<Pair(K_hasFlag, v1),
                                            Pair(K_IsOn, v2)>>))>>)

\* the context handed to validateValueTypes: the parsed document, nothing
\* recorded yet
InitValueTypes ==
    /\ \E v1 \in FlagValues, v2 \in FlagValues :
          /\ parseResult = [ast |-> FlagsDocument(v1, v2), errors |-> <<>>]
          /\ document = FlagsDocument(v1, v2)
    /\ originalContent = "none"
    /\ sessionErrors = <<>>
    /\ sessionWarnings = <<>>
    /\ autoFixedIssues = <<>>
    /\ fixedContent = NoText
    /\ pc = "valueTypes"
    /\ result = NoResult
    /\ run = 1
    /\ previous = NoPrevious
    /\ externalDocumentCache = <<>>
    /\ externalFiles = ExternalFiles
    /\ runs = NoRuns
    /\ disk = NoFile
    /\ load = NoLoad

SpecValueTypes == InitValueTypes /\ [][ValidateValueTypes]_vars

\* the entries of the flags section before and after the stage
FlagsBefore == parseResult.ast.items[3].value.items
FlagsAfter == document.items[3].value.items

\* the invalid-boolean errors recorded for a key
BooleanErrors(key) ==
    {i \in 1..Len(sessionErrors) :
        /\ sessionErrors[i].code = "LAML_INVALID_BOOLEAN_VALUE"
        /\ sessionErrors[i].path = key}

\* the boolean corrections recorded for a key
BooleanFixes(key) ==
    {i \in 1..Len(autoFixedIssues) :
        /\ autoFixedIssues[i].msg = "Fixed boolean value"
        /\ autoFixedIssues[i].a = key}

\* what the claim says of one entry: coerced with a correction, or left as
\* it is with exactly one error
Coerced(before, after) ==
    IF before.value.text \in TrueTexts \cup FalseTexts
    THEN /\ after.value.vt = "bool"
         /\ after.value.text =
                (IF before.value.text \in TrueTexts THEN T_true ELSE T_false)
         /\ Cardinality(BooleanFixes(before.key)) = 1
         /\ BooleanErrors(before.key) = {}
    ELSE /\ after.value = before.value
         /\ Cardinality(BooleanErrors(before.key)) = 1
         /\ BooleanFixes(before.key) = {}

\* C11 as stated: every entry with a boolean-trigger key and a text value is
\* coerced with a correction when the text is true/yes/1 or false/no/0, and
\* is otherwise left unchanged with exactly one invalid-boolean error and no
\* correction.
C11_BooleanCoercion ==
    pc = "aliases" =>
        \A j \in 1..Len(FlagsBefore) :
            (isBooleanTrigger(FlagsBefore[j].key) /\ isString(FlagsBefore[j].value))
                => Coerced(FlagsBefore[j], FlagsAfter[j])

\* C11 amended: the same, for text that does not start with * (a text that
\* starts with * is a reference and is not looked at as a boolean).
C11_BooleanCoercionUnlessReference ==
    pc = "aliases" =>
        \A j \in 1..Len(FlagsBefore) :
            (/\ isBooleanTrigger(FlagsBefore[j].key)
             /\ isString(FlagsBefore[j].value)
             /\ ~StartsWith(FlagsBefore[j].value.text, T_star))
                => Coerced(FlagsBefore[j], FlagsAfter[j])

\* hasFlag: 'yes' was coerced and IsOn: 'maybe' was refused
C11_Witness ==
    /\ pc = "aliases"
    /\ FlagsBefore[1].value = Str(T_yes, "QUOTE_SINGLE")
    /\ FlagsBefore[2].value = Str(T_maybe, "QUOTE_SINGLE")
    /\ FlagsAfter[1].value.vt = "bool"
    /\ FlagsAfter[2].value = FlagsBefore[2].value
    /\ Cardinality(BooleanErrors(K_IsOn)) = 1

\* what the literal/descriptive branch records for a text
LiteralOrDescriptiveRecords(text) ==
    {i \in 1..Len(sessionErrors) :
        /\ sessionErrors[i].code \in {"LAML_LITERAL_TOO_MANY_WORDS",
                                      "LAML_DESCRIPTIVE_EMPTY"}
        /\ sessionErrors[i].path = text}
    \cup {i \in 1..Len(sessionWarnings) : sessionWarnings[i].path = text}
    \cup {i \in 1..Len(autoFixedIssues) :
             /\ autoFixedIssues[i].msg \in {"Fixed literal quote style",
                                            "Fixed descriptive quote style"}
             /\ autoFixedIssues[i].a = text}

\* C23: an entry whose text starts with * is classified as a reference
\* whatever its key: under a boolean-trigger key it is neither coerced nor
\* reported as an invalid boolean, and the literal/descriptive branch does
\* not touch it either (no quote-style change, nothing recorded for it)
C23_ReferenceBeforeBoolean ==
    pc = "aliases" =>
        \A j \in 1..Len(FlagsBefore) :
            (/\ isBooleanTrigger(FlagsBefore[j].key)
             /\ isString(FlagsBefore[j].value)
             /\ StartsWith(FlagsBefore[j].value.text, T_star))
                => /\ FlagsAfter[j].value = FlagsBefore[j].value
                   /\ BooleanErrors(FlagsBefore[j].key) = {}
                   /\ BooleanFixes(FlagsBefore[j].key) = {}
                   /\ LiteralOrDescriptiveRecords(FlagsBefore[j].value.text) = {}

\* hasFlag: "*section1.property" went through the stage as it was, while
\* IsOn: 'maybe' was refused as a boolean
C23_Witness ==
    /\ pc = "aliases"
    /\ FlagsBefore[1].value = Str(T_refProperty, "QUOTE_DOUBLE")
    /\ FlagsAfter[1].value = FlagsBefore[1].value
    /\ FlagsBefore[2].value = Str(T_maybe, "PLAIN")
    /\ Len(sessionErrors) = 1
    /\ sessionErrors[1].code = "LAML_INVALID_BOOLEAN_VALUE"

\* C24: value-type validation records no reference-format error for a value
\* whose text starts with * (the stage starts with nothing recorded, so
\* every error present after it is its own)
C24_NoFormatErrorFromValueTypes ==
    pc = "aliases" => "LAML_INVALID_REFERENCE_FORMAT" \notin ErrorCodes

----------------------------------------------------------------------------
(* Layout normalization on nested containers *)

K_k == <<"k">>
K_v == <<"v">>
T_one_ == <<"o","n","e">>
T_two == <<"t","w","o">>

\* a descriptive text of 60 characters
LongText == [i \in 1..60 |-> IF i % 6 = 0 THEN " " ELSE "x"]
LongValue == Str(LongText, "QUOTE_DOUBLE")
ShortValue == Str(T_value, "QUOTE_SINGLE")

\* { k: 'one', v: 1 } and { k: 'two', v: 1 }
ShortMap(flow, text) ==
    Map(flow, <<Pair(K_k, Str(text, "QUOTE_SINGLE")), Pair(K_v, Num(T_one))>>)

\* { property: "xxxxx xxxxx ..." }
LongMap(flow) == Map(flow, <<Pair(K_property, LongValue)>>)

\* the containers written under section1, in block and in flow form
Containers ==
    UNION {{ ShortMap(f, T_one_),
             LongMap(f),
             \* items: ['value', 'value']
             Map(f, <<Pair(K_items, Seq_(g, <<ShortValue, ShortValue>>))>>),
             \* a sequence of one long text
             Map(f, <<Pair(K_items, Seq_(g, <<LongValue>>))>>),
             \* a long mapping that holds a short one
             Map(f, <<Pair(K_property, LongValue),
                      Pair(K_type, ShortMap(g, T_one_))>>),
             \* the sequence of two short mappings
             Map(f, <<Pair(K_items, Seq_(g, <<ShortMap(f, T_one_),
                                             ShortMap(f, T_two)>>))>>),
             \* a sequence of one long mapping
             Map(f, <<Pair(K_items, Seq_(g, <<LongMap(f)>>))>>),
             \* a sequence of sequences
             Map(f, <<Pair(K_items, Seq_(g, <<Seq_(f, <<LongValue>>)>>))>>)
           } : f \in BOOLEAN, g \in BOOLEAN}

\* what the parser hands over: a container in a flow container is flow itself
RECURSIVE Parsed(_, _)
Parsed(node, inFlow) ==
    IF isMap(node)
    THEN [node EXCEPT !.flow = inFlow \/ node.flow,
                      !.items = [i \in 1..Len(node.items) |->
                          Pair(node.items[i].key,
                               Parsed(node.items[i].value, inFlow \/ node.flow))]]
    ELSE IF isSeq(node)
    THEN [node EXCEPT !.flow = inFlow \/ node.flow,
                      !.items = [i \in 1..Len(node.items) |->
                          Parsed(node.items[i], inFlow \/ node.flow)]]
    ELSE node

LayoutDocuments ==
    {Map(FALSE, <<ValidMeta, Pair(K_section1, Parsed(c, FALSE))>>) :
        c \in Containers}

InitLayout ==
    /\ \E d \in LayoutDocuments, c \in {"none", "fenced"} :
          /\ parseResult = [ast |-> d, errors |-> <<>>]
          /\ originalContent = c
    /\ document = NullNode
    /\ sessionErrors = <<>>
    /\ sessionWarnings = <<>>
    /\ autoFixedIssues = <<>>
    /\ fixedContent = NoText
    /\ pc = "start"
    /\ result = NoResult
    /\ run = 1
    /\ previous = NoPrevious
    /\ externalDocumentCache = <<>>
    /\ externalFiles = ExternalFiles
    /\ runs = NoRuns
    /\ disk = NoFile
    /\ load = NoLoad

\* validateLaml on a document that parsed
NextLayout ==
    \/ ValidateYamlWrapping
    \/ CheckSyntaxErrors
    \/ ValidateMandatorySections
    \/ ValidateMetaPosition
    \/ ValidateYamlMergeKeys
    \/ ValidateReferences
    \/ ValidateValueTypes
    \/ ConvertAliasesToReferences
    \/ ValidateStructurePrinciples
    \/ FormatDataStructures
    \/ Return
    \/ Refeed

SpecLayout == InitLayout /\ [][NextLayout]_vars

\* the length of the single-line rendering of a node, written as
\* getInlineMapString writes it, every element of a sequence included
RECURSIVE FlowLength(_)
FlowLength(node) ==
    IF isScalar(node) THEN JsonLength(node)
    ELSE IF isMap(node)
    THEN LET n == Len(node.items)
             F[i \in 0..n] ==
                 IF i = 0 THEN 0
                 ELSE F[i - 1] + (2 + Len(node.items[i].key)) + 2
                               + FlowLength(node.items[i].value)
         IN  4 + F[n] + (IF n > 1 THEN 2 * (n - 1) ELSE 0)
    ELSE IF isSeq(node)
    THEN LET n == Len(node.items)
             F[i \in 0..n] ==
                 IF i = 0 THEN 0 ELSE F[i - 1] + FlowLength(node.items[i])
         IN  2 + F[n] + (IF n > 1 THEN 2 * (n - 1) ELSE 0)
    ELSE 1 + Len(node.text)

\* the non-empty mappings and sequences of a tree
RECURSIVE NonEmptyContainers(_)
NonEmptyContainers(node) ==
    IF isMap(node)
    THEN (IF Len(node.items) > 0 THEN {node} ELSE {})
         \cup UNION {NonEmptyContainers(node.items[i].value) :
                         i \in 1..Len(node.items)}
    ELSE IF isSeq(node)
    THEN (IF Len(node.items) > 0 THEN {node} ELSE {})
         \cup UNION {NonEmptyContainers(node.items[i]) :
                         i \in 1..Len(node.items)}
    ELSE {}

LayoutFixes ==
    {i \in 1..Len(autoFixedIssues) :
        autoFixedIssues[i].msg \in
            {"Reformatted object structure for optimal readability",
             "Reformatted array structure for optimal readability"}}

\* C12: once layout normalization has run, every non-empty mapping or
\* sequence of the document is in flow form exactly when its flow rendering
\* has at most 50 characters.
C12_FlowIffShort ==
    pc \in {"return", "done"} =>
        \A c \in NonEmptyContainers(document) :
            c.flow <=> FlowLength(c) <= MAX_INLINE_LENGTH

\* C13: a run on the corrected text of the previous run records no layout
\* correction.
C13_NoLayoutFixOnRerun ==
    (Done /\ run > 1) => LayoutFixes = {}

----------------------------------------------------------------------------
(* The domains field *)

T_ab == <<"a",".","b">>
T_abc == <<"a",".","b",".","c">>
T_cd == <<"c",".","d">>
T_ef == <<"e",".","f">>

MaxDomainItems == 5

\* what one element of the domains sequence can be: four tags, and a number
DomainItems ==
    {Str(t, "QUOTE_SINGLE") : t \in {T_ab, T_abc, T_cd, T_ef}} \cup {Num(T_one)}

\* domains: [ ... ] of 1 to MaxDomainItems elements
DomainSequences ==
    UNION {[1..n -> DomainItems] : n \in 1..MaxDomainItems}

\* a document whose only section is $meta, complete, with these domains
DomainsDocument(items) ==
    Map(FALSE, <<Pair(K_meta, Map(FALSE, <<
        Pair(K_name, Str(T_testDoc, "QUOTE_SINGLE")),
        Pair(K_purpose, Str(T_testDocument, "QUOTE_DOUBLE")),
        Pair(K_version, Num(T_one)),
        Pair(K_spec, Str(T_specPath, "QUOTE_SINGLE")),
        Pair(K_domains, Seq_(TRUE, items)) >>))>>)

InitDomains ==
    /\ \E items \in DomainSequences :
          parseResult = [ast |-> DomainsDocument(items), errors |-> <<>>]
    /\ originalContent = "none"
    /\ document = NullNode
    /\ sessionErrors = <<>>
    /\ sessionWarnings = <<>>
    /\ autoFixedIssues = <<>>
    /\ fixedContent = NoText
    /\ pc = "start"
    /\ result = NoResult
    /\ run = 1
    /\ previous = NoPrevious
    /\ externalDocumentCache = <<>>
    /\ externalFiles = ExternalFiles
    /\ runs = NoRuns
    /\ disk = NoFile
    /\ load = NoLoad

\* the head of validateLaml, up to the end of structural validation
NextDomains ==
    \/ ValidateYamlWrapping
    \/ CheckSyntaxErrors
    \/ ValidateMandatorySections

SpecDomains == InitDomains /\ [][NextDomains]_vars

\* the elements of $meta.domains, as parsed and after structural validation
DomainsBefore == parseResult.ast.items[1].value.items[5].value.items
DomainsAfter == document.items[1].value.items[5].value.items

AfterDomains == pc = "metaPosition"

\* the tags of a sequence: the texts of its string elements
TagsOf(items) == {items[i].text : i \in {j \in 1..Len(items) : isString(items[j])}}

\* element i is a tag that an earlier element already holds
LaterOccurrence(items, i) ==
    /\ isString(items[i])
    /\ \E j \in 1..(i - 1) : isString(items[j]) /\ items[j].text = items[i].text

HasDuplicateTags(items) == \E i \in 1..Len(items) : LaterOccurrence(items, i)

\* the sequence without the later occurrences of its tags
RECURSIVE KeepFirst(_, _)
KeepFirst(items, i) ==
    IF i > Len(items) THEN <<>>
    ELSE IF LaterOccurrence(items, i) THEN KeepFirst(items, i + 1)
    ELSE <<items[i]>> \o KeepFirst(items, i + 1)

ErrorsWithCode(code) ==
    {i \in 1..Len(sessionErrors) : sessionErrors[i].code = code}

DuplicateFixes ==
    {i \in 1..Len(autoFixedIssues) :
        autoFixedIssues[i].msg = "Removed duplicate domains"}

\* C14: when domains holds a tag more than once, structural validation
\* leaves the sequence with the first occurrence of each tag, every later
\* occurrence removed and every other element kept, and records one entry
\* for the removal.
C14_KeepFirstOccurrence ==
    (AfterDomains /\ HasDuplicateTags(DomainsBefore)) =>
        /\ DomainsAfter = KeepFirst(DomainsBefore, 1)
        /\ Cardinality(DuplicateFixes) = 1

\* C15: one count error when domains holds more than 3 different tags, none
\* when it holds 3 or fewer.
C15_CountError ==
    AfterDomains =>
        Cardinality(ErrorsWithCode("LAML_DOMAINS_COUNT_EXCEEDED")) =
            (IF Cardinality(TagsOf(DomainsBefore)) > 3 THEN 1 ELSE 0)

\* four different tags, one of them twice: one count error
C15_Witness ==
    /\ AfterDomains
    /\ Cardinality(TagsOf(DomainsBefore)) = 4
    /\ HasDuplicateTags(DomainsBefore)
    /\ Cardinality(ErrorsWithCode("LAML_DOMAINS_COUNT_EXCEEDED")) = 1

\* the unordered pairs of tags in which one, followed by a dot, starts the other
OverlappingPairs(tags) ==
    {p \in SUBSET tags :
        /\ Cardinality(p) = 2
        /\ \E x \in p, y \in p : x # y /\ StartsWith(y, x \o <<".">>)}

----------------------------------------------------------------------------
(* handleLoadLaml: the file at the path is read, validated and, when the
   run corrected it, written back *)

\* error.code of the exceptions readFile and writeFile throw
Errnos == {"ENOENT", "EACCES", "EISDIR", "EIO"}

\* a catch block with a single code
loadErrorCodeOther(errno) == "LAML_READ_CRITICAL_ERROR"

\* the catch block: the code recorded for an exception
loadErrorCode(errno) ==
    CASE errno = "ENOENT" -> "LAML_FILE_NOT_FOUND"
      [] errno = "EACCES" -> "LAML_PERMISSION_DENIED"
      [] errno = "EISDIR" -> "LAML_PATH_IS_DIRECTORY"
      [] OTHER -> "LAML_READ_CRITICAL_ERROR"

\* session.getResult({})
EmptyResponse ==
    [returned |-> TRUE, empty |-> TRUE, content |-> NullNode,
     autoFixedIssues |-> <<>>, isValid |-> FALSE]

\* a file's text, by what parseLaml and validateYamlWrapping make of it
FileContent(wrap, ast, errors) == [wrap |-> wrap, ast |-> ast, errors |-> errors]

EmptyFile == FileContent("none", NullNode, <<>>)

\* what the path names: a file, or the failure readFile meets there
Disks ==
    { [kind |-> e, content |-> EmptyFile] : e \in Errnos }
    \cup { [kind |-> "file", content |-> FileContent(w, NullNode, <<>>)] :
              w \in {"none", "unwrapped"} }
    \cup { [kind |-> "file", content |-> FileContent(e.content, d, e.errors)] :
              d \in Documents, e \in Envelopes }

InitLoad ==
    /\ disk \in Disks
    /\ \E p \in {"absolute", "relative"} :
           load = [path |-> p, reads |-> 0, writes |-> 0,
                   response |-> NoResponse]
    /\ originalContent = "none"
    /\ parseResult = [ast |-> NullNode, errors |-> <<>>]
    /\ document = NullNode
    /\ sessionErrors = <<>>
    /\ sessionWarnings = <<>>
    /\ autoFixedIssues = <<>>
    /\ fixedContent = NoText
    /\ pc = "load"
    /\ result = NoResult
    /\ run = 1
    /\ previous = NoPrevious
    /\ externalDocumentCache = <<>>
    /\ externalFiles = ExternalFiles
    /\ runs = NoRuns

\* catch: one error for the exception, return session.getResult({})
Fail(errno) ==
    /\ sessionErrors' = Append(sessionErrors,
                               Diag(loadErrorCode(errno), NoPath, NoCycle))
    /\ pc' = "returned"

\* if (!isAbsolute(path)): LAML_INVALID_PATH_FORMAT and return
CheckPath ==
    /\ pc = "load"
    /\ UNCHANGED <<externalFiles, runs>>
    /\ IF load.path = "relative"
       THEN /\ sessionErrors' = Append(sessionErrors,
                     Diag("LAML_INVALID_PATH_FORMAT", NoPath, NoCycle))
            /\ load' = [load EXCEPT !.response = EmptyResponse]
            /\ pc' = "returned"
       ELSE /\ pc' = "read"
            /\ UNCHANGED <<sessionErrors, load>>
    /\ UNCHANGED <<originalContent, parseResult, document, sessionWarnings,
                   autoFixedIssues, fixedContent, result, run, previous,
                   externalDocumentCache, disk>>

\* readFile and parseLaml; an exception goes to the catch block
ReadFile ==
    /\ pc = "read"
    /\ UNCHANGED <<externalFiles, runs>>
    /\ IF disk.kind = "file"
       THEN /\ originalContent' = disk.content.wrap
            /\ parseResult' = [ast |-> disk.content.ast,
                               errors |-> disk.content.errors]
            /\ load' = [load EXCEPT !.reads = @ + 1]
            /\ pc' = "start"
            /\ UNCHANGED sessionErrors
       ELSE /\ Fail(disk.kind)
            /\ load' = [load EXCEPT !.reads = @ + 1,
                                    !.response = EmptyResponse]
            /\ UNCHANGED <<originalContent, parseResult>>
    /\ UNCHANGED <<document, sessionWarnings, autoFixedIssues, fixedContent,
                   result, run, previous, externalDocumentCache, disk>>

\* a handler that writes after every run
shouldWriteAlways(validationResult) == TRUE

\* if (validationResult.fixedContent && autoFixedIssues.length > 0)
shouldWrite(validationResult) ==
    /\ validationResult.fixedContent.present
    /\ Len(validationResult.autoFixedIssues) > 0

\* the file after writeFile(fullPath, fixedContent)
Written(before, text) ==
    FileContent(IF text.fenced THEN "fenced"
                ELSE IF before.wrap = "none" THEN "none" ELSE "unwrapped",
                IF text.yaml = NullNode THEN before.ast
                ELSE ParseYaml(text.yaml),
                IF text.yaml = NullNode THEN before.errors ELSE <<>>)

\* writeFile succeeds, is refused, or fails after the file was opened for
\* writing; an exception goes to the catch block
WriteFile ==
    /\ pc = "done"
    /\ UNCHANGED <<externalFiles, runs>>
    /\ load.path = "absolute"
    /\ IF shouldWrite(result)
       THEN \/ /\ disk' = [disk EXCEPT
                               !.content = Written(disk.content,
                                                   result.fixedContent)]
               /\ load' = [load EXCEPT !.writes = @ + 1]
               /\ pc' = "respond"
               /\ UNCHANGED sessionErrors
            \/ /\ Fail("EACCES")
               /\ load' = [load EXCEPT !.response = EmptyResponse]
               /\ UNCHANGED disk
            \/ /\ Fail("EIO")
               /\ load' = [load EXCEPT !.writes = @ + 1,
                                       !.response = EmptyResponse]
               /\ disk' \in {disk, [disk EXCEPT !.content = EmptyFile]}
       ELSE /\ pc' = "respond"
            /\ UNCHANGED <<sessionErrors, load, disk>>
    /\ UNCHANGED <<originalContent, parseResult, document, sessionWarnings,
                   autoFixedIssues, fixedContent, result, run, previous,
                   externalDocumentCache>>

\* return session.getResult({content, autoFixedIssues, isValid})
Respond ==
    /\ pc = "respond"
    /\ UNCHANGED <<externalFiles, runs>>
    /\ load' = [load EXCEPT !.response =
                    [returned |-> TRUE, empty |-> FALSE,
                     content |-> IF result.fixedContent.present
                                    /\ result.fixedContent.yaml # NullNode
                                 THEN ParseYaml(result.fixedContent.yaml)
                                 ELSE parseResult.ast,
                     autoFixedIssues |-> result.autoFixedIssues,
                     isValid |-> result.isValid]]
    /\ pc' = "returned"
    /\ UNCHANGED <<originalContent, parseResult, document, sessionErrors,
                   sessionWarnings, autoFixedIssues, fixedContent, result,
                   run, previous, externalDocumentCache, disk>>

NextLoad ==
    \/ CheckPath
    \/ ReadFile
    \/ ValidateYamlWrapping
    \/ ParseFailed
    \/ CheckSyntaxErrors
    \/ ValidateMandatorySections
    \/ ValidateMetaPosition
    \/ ValidateYamlMergeKeys
    \/ ValidateReferences
    \/ ValidateValueTypes
    \/ ConvertAliasesToReferences
    \/ ValidateStructurePrinciples
    \/ FormatDataStructures
    \/ Return
    \/ WriteFile
    \/ Respond

SpecLoad == InitLoad /\ [][NextLoad]_vars

\* the file as handleLoadLaml read it
FileAsRead ==
    FileContent(originalContent, parseResult.ast, parseResult.errors)

\* C17: every step of handleLoadLaml that changes the file at the path is
\* taken with a validation result that lists at least one applied correction
\* and carries corrected text; every other step, the error returns included,
\* leaves the file as it was
C17_WriteOnlyCorrected ==
    [][disk' # disk =>
          /\ Len(result.autoFixedIssues) > 0
          /\ result.fixedContent.present]_vars

\* a run that corrected the file has returned and the file holds new content
C17_Witness ==
    /\ pc = "returned"
    /\ load.writes = 1
    /\ ~load.response.empty
    /\ Len(result.autoFixedIssues) > 0
    /\ disk.content # FileAsRead

\* the code a cause is reported with
CauseCode(path, kind) ==
    IF path = "relative" THEN "LAML_INVALID_PATH_FORMAT"
    ELSE IF kind = "ENOENT" THEN "LAML_FILE_NOT_FOUND"
    ELSE IF kind = "EACCES" THEN "LAML_PERMISSION_DENIED"
    ELSE IF kind = "EISDIR" THEN "LAML_PATH_IS_DIRECTORY"
    ELSE "LAML_READ_CRITICAL_ERROR"

LoadFailed == load.path = "relative" \/ disk.kind # "file"

\* C18: when the path is not absolute or the file cannot be read,
\* handleLoadLaml returns with exactly one error recorded, the error's code
\* is the one of the cause, the file was read at most once (never for a
\* path that is not absolute), and the result is empty
C18_OneErrorEmptyResult ==
    (pc = "returned" /\ LoadFailed) =>
        /\ Len(sessionErrors) = 1
        /\ sessionErrors[1].code = CauseCode(load.path, disk.kind)
        /\ load.reads = (IF load.path = "relative" THEN 0 ELSE 1)
        /\ load.writes = 0
        /\ load.response = EmptyResponse

\* the path names a directory: one LAML_PATH_IS_DIRECTORY, empty result
C18_Witness ==
    /\ pc = "returned"
    /\ load.path = "absolute"
    /\ disk.kind = "EISDIR"
    /\ ErrorCodes = {"LAML_PATH_IS_DIRECTORY"}
    /\ load.response.empty


----------------------------------------------------------------------------
(* The stages of a run *)

\* the positions of validateLaml between the syntax report and the return,
\* in the order of the calls: structural validation (mandatory sections,
\* $meta position), merge-key check, reference validation, value-type
\* validation, alias conversion, layout normalization (structure principles,
\* formatting), return
Positions ==
    <<"mandatorySections", "metaPosition", "mergeKeys", "references",
      "valueTypes", "aliases", "structurePrinciples", "format", "return">>

PositionOf(p) == CHOOSE i \in 1..Len(Positions) : Positions[i] = p

InStages(p) == \E i \in 1..Len(Positions) : Positions[i] = p

\* C19: in every run on a parsed document the stages run in one fixed
\* order: a stage is entered only from the stage before it (the first one
\* only from the syntax report of a parsed document), and a stage is left
\* only for the stage after it
C19_FixedStageOrder ==
    [][pc' # pc =>
          /\ InStages(pc') =>
                 IF PositionOf(pc') = 1
                 THEN pc = "parsed" /\ parseResult.ast # NullNode
                 ELSE InStages(pc) /\ PositionOf(pc) = PositionOf(pc') - 1
          /\ (InStages(pc) /\ pc # "return") =>
                 InStages(pc') /\ PositionOf(pc') = PositionOf(pc) + 1]_vars

StructuralCodes ==
    {"LAML_META_SECTION_MISSING", "LAML_META_INVALID_TYPE",
     "LAML_META_NAME_EMPTY", "LAML_META_NAME_INVALID_FORMAT",
     "LAML_META_NAME_INVALID_TYPE", "LAML_META_PURPOSE_INVALID",
     "LAML_META_DOMAINS_MISSING", "LAML_DOMAIN_INVALID_FORMAT",
     "LAML_DOMAINS_OVERLAPPING", "LAML_INVALID_ROOT_STRUCTURE"}

ReferenceCodes == {"LAML_REFERENCE_NOT_FOUND", "LAML_CIRCULAR_REFERENCE"}

\* what the layout stage enters in the ledger
LayoutMessages ==
    {"Reformatted object structure for optimal readability",
     "Reformatted array structure for optimal readability"}

\* what the value-type stage enters in the ledger
ValueTypeMessages ==
    {"Fixed literal quote style", "Fixed descriptive quote style",
     "Fixed boolean value"}

\* a run has passed all stages: it reported a structural violation and then
\* a reference violation, and the last entry of its ledger is a layout change
C19_Witness ==
    /\ pc = "return"
    /\ \E i, j \in 1..Len(sessionErrors) :
           /\ i < j
           /\ sessionErrors[i].code \in StructuralCodes
           /\ sessionErrors[j].code \in ReferenceCodes
    /\ Len(autoFixedIssues) > 0
    /\ autoFixedIssues[Len(autoFixedIssues)].msg \in LayoutMessages

IsPrefix(s, t) == Len(s) <= Len(t) /\ SubSeq(t, 1, Len(s)) = s

\* C20: a run on a parsed document that has recorded errors goes on: from
\* every stage it moves to the next stage and never straight to the return,
\* and what was recorded stays in the diagnostics in front of what the
\* later stages add; the run returns only from the last stage
C20_ErrorsNeverStopARun ==
    [][(parseResult.ast # NullNode /\ pc' # pc) =>
          /\ (InStages(pc) /\ pc # "return" /\ Len(sessionErrors) > 0) =>
                 /\ pc' = Positions[PositionOf(pc) + 1]
                 /\ IsPrefix(sessionErrors, sessionErrors')
          /\ pc' = "return" => pc = "format"
          /\ pc' = "done" =>
                 pc = "return" /\ result'.isValid = (sessionErrors = <<>>)]_vars

\* a run that reported a structural and a reference violation went on to
\* the value-type stage, which corrected a value, and returned
C20_Witness ==
    /\ pc = "done"
    /\ parseResult.ast # NullNode
    /\ ErrorCodes \cap StructuralCodes # {}
    /\ ErrorCodes \cap ReferenceCodes # {}
    /\ \E i \in 1..Len(result.autoFixedIssues) :
           result.autoFixedIssues[i].msg \in ValueTypeMessages
    /\ ~result.isValid


----------------------------------------------------------------------------
(* Circular references: findCircularReferences on documents whose section
   `s` holds references between its own properties *)

K_s == <<"s">>

\* the property names of the section, in document order
PropertyKeys == <<"a", "b", "c", "d", "e">>

MaxCycleProperties == 4

\* *s.k
RefTo(k) == <<"*", "s", ".", k>>

\* what a property holds: a reference to a property of the section, or text
PropertyValues ==
    {Str(RefTo(PropertyKeys[i]), "QUOTE_SINGLE") : i \in 1..MaxCycleProperties}
    \cup {Str(T_value, "QUOTE_SINGLE")}

CycleDocument(values) ==
    Map(FALSE, <<ValidMeta,
                 Pair(K_s, Map(FALSE,
                     [i \in 1..MaxCycleProperties |->
                         Pair(<<PropertyKeys[i]>>, values[i])]))>>)

InitCycles ==
    /\ \E values \in [1..MaxCycleProperties -> PropertyValues] :
          parseResult = [ast |-> CycleDocument(values), errors |-> <<>>]
    /\ originalContent = "none"
    /\ document = NullNode
    /\ sessionErrors = <<>>
    /\ sessionWarnings = <<>>
    /\ autoFixedIssues = <<>>
    /\ fixedContent = NoText
    /\ pc = "start"
    /\ result = NoResult
    /\ run = 1
    /\ previous = NoPrevious
    /\ externalDocumentCache = <<>>
    /\ externalFiles = ExternalFiles
    /\ runs = NoRuns
    /\ disk = NoFile
    /\ load = NoLoad

\* validateLaml up to the end of reference validation
NextCycles ==
    \/ ValidateYamlWrapping
    \/ CheckSyntaxErrors
    \/ ValidateMandatorySections
    \/ ValidateMetaPosition
    \/ ValidateYamlMergeKeys
    \/ ValidateReferences

SpecCycles == InitCycles /\ [][NextCycles]_vars

\* the entries of the document's mappings that hold a string, as
\* <<dotted path of the property, text>>
RECURSIVE Holders(_, _)
Holders(node, path) ==
    IF isMap(node)
    THEN UNION {Holders(node.items[i].value, Append(path, node.items[i].key)) :
                    i \in 1..Len(node.items)}
    ELSE IF isString(node) THEN {<<Join(path, <<".">>), node.text>>}
    ELSE {}

\* the reference graph: an edge leads from a property that holds an internal
\* reference to the entry the reference names, when the document declares it
ReferenceEdges(doc) ==
    {<<h[1], Drop(h[2], 1)>> : h \in
        {g \in Holders(doc, <<>>) :
            /\ InternalGrammar(g[2])
            /\ PathDeclared(doc, Split(Drop(g[2], 1), "."))}}

CycleLists ==
    {sessionErrors[i].cycle : i \in
        {j \in 1..Len(sessionErrors) :
            sessionErrors[j].code = "LAML_CIRCULAR_REFERENCE"}}

\* C21: the cycle list of every circular-reference diagnostic starts and
\* ends with the same node, and each element is followed by the target of a
\* reference the element holds
C21_CycleListIsACycle ==
    \A c \in CycleLists :
        /\ Len(c) >= 2
        /\ c[1] = c[Len(c)]
        /\ \A i \in 1..(Len(c) - 1) :
               <<c[i], c[i + 1]>> \in ReferenceEdges(parseResult.ast)

\* a cycle through three properties has been reported
C21_Witness ==
    /\ pc = "valueTypes"
    /\ \E c \in CycleLists : Len(c) = 4

\* the nodes reached from n in one or more steps
RECURSIVE ReachedFrom(_, _, _)
ReachedFrom(edges, frontier, seen) ==
    IF frontier \subseteq seen THEN seen
    ELSE ReachedFrom(edges,
                     {e[2] : e \in {f \in edges : f[1] \in frontier}},
                     seen \cup frontier)

OnACycle(edges, n) ==
    n \in ReachedFrom(edges, {e[2] : e \in {f \in edges : f[1] = n}}, {})

HasReferenceCycle(doc) ==
    \E e \in ReferenceEdges(doc) : OnACycle(ReferenceEdges(doc), e[1])

\* C22: when the properties that hold resolvable internal references form a
\* directed cycle, reference validation records at least one
\* circular-reference error
C22_CycleIsReported ==
    (pc = "valueTypes" /\ HasReferenceCycle(parseResult.ast)) =>
        "LAML_CIRCULAR_REFERENCE" \in ErrorCodes


----------------------------------------------------------------------------
(* Literal values of one to seven words in the value-type stage *)

K_words == <<"w","o","r","d","s">>

\* texts of 1, 2, 5, 6 and 7 compound words, a text that is not a literal,
\* and a literal that is not camelCase
LiteralTexts ==
    { <<"a","b">>, <<"a","B">>, <<"a","B","C","D","E">>,
      <<"a","B","C","D","E","F">>, <<"a","B","c","D","E","F","G","H">>,
      <<"a"," ","B">>, <<"A","b">> }

LiteralValues ==
    {Str(t, s) : t \in LiteralTexts,
                 s \in {"PLAIN", "QUOTE_SINGLE", "QUOTE_DOUBLE"}}

\* $meta, section1 and  words: { property: v1, type: v2 }
LiteralsDocument(v1, v2) ==
    Map(FALSE, <<ValidMeta,
                 Pair(K_section1, Map(TRUE, <<Pair(K_property,
                                          Str(T_value, "QUOTE_SINGLE"))>>)),
                 Pair(K_words, Map(FALSE, <<Pair(K_property, v1),
                                            Pair(K_type, v2)>>))>>)

InitLiterals ==
    /\ \E v1 \in LiteralValues, v2 \in LiteralValues :
          /\ parseResult = [ast |-> LiteralsDocument(v1, v2), errors |-> <<>>]
          /\ document = LiteralsDocument(v1, v2)
    /\ originalContent = "none"
    /\ sessionErrors = <<>>
    /\ sessionWarnings = <<>>
    /\ autoFixedIssues = <<>>
    /\ fixedContent = NoText
    /\ pc = "valueTypes"
    /\ result = NoResult
    /\ run = 1
    /\ previous = NoPrevious
    /\ externalDocumentCache = <<>>
    /\ externalFiles = ExternalFiles
    /\ runs = NoRuns
    /\ disk = NoFile
    /\ load = NoLoad

\* validateLaml from the value-type stage to its return
NextLiterals ==
    \/ ValidateValueTypes
    \/ ConvertAliasesToReferences
    \/ ValidateStructurePrinciples
    \/ FormatDataStructures
    \/ Return

SpecLiterals == InitLiterals /\ [][NextLiterals]_vars

WordsBefore == parseResult.ast.items[3].value.items
WordsAfter == document.items[3].value.items

\* more than five compound words in a literal-shaped text
TooManyWords(text) == isLiteralValue(text) /\ WordCount(text) > 5

TooManyWordsErrors(text) ==
    {i \in 1..Len(sessionErrors) :
        /\ sessionErrors[i].code = "LAML_LITERAL_TOO_MANY_WORDS"
        /\ sessionErrors[i].path = text}

\* C25: once the value-type stage has run, every entry that holds a
\* literal-shaped text of more than five compound words has its text and
\* quote style as parsed, the run holds one too-many-words error for each
\* entry holding that text, and neither the ledger nor the warnings name it
C25_TooManyWordsLeftUnchanged ==
    pc \in {"aliases", "structurePrinciples", "format", "return", "done"} =>
        \A j \in 1..Len(WordsBefore) :
            TooManyWords(WordsBefore[j].value.text) =>
                /\ WordsAfter[j].value = WordsBefore[j].value
                /\ Cardinality(TooManyWordsErrors(WordsBefore[j].value.text))
                     = Cardinality({k \in 1..Len(WordsBefore) :
                           WordsBefore[k].value.text = WordsBefore[j].value.text})
                /\ \A i \in 1..Len(autoFixedIssues) :
                       autoFixedIssues[i].a # WordsBefore[j].value.text
                /\ \A i \in 1..Len(sessionWarnings) :
                       sessionWarnings[i].path # WordsBefore[j].value.text

\* a double-quoted literal of six words was refused and kept its quotes,
\* next to a double-quoted literal of two words that was requoted
C25_Witness ==
    /\ pc = "done"
    /\ WordsBefore[1].value = Str(<<"a","B","C","D","E","F">>, "QUOTE_DOUBLE")
    /\ WordsAfter[1].value = WordsBefore[1].value
    /\ WordsBefore[2].value = Str(<<"a","B">>, "QUOTE_DOUBLE")
    /\ WordsAfter[2].value.style = "QUOTE_SINGLE"
    /\ Len(sessionErrors) = 1


----------------------------------------------------------------------------
(* $meta with any of its required fields missing *)

\* $meta with the required fields of the given set, each with a valid value
MetaWithFields(present) ==
    Pair(K_meta, Map(FALSE,
        SelectSeq(ValidMeta.value.items, LAMBDA p : p.key \in present)))

MetaDocument(present) ==
    Map(FALSE, <<MetaWithFields(present),
                 Pair(K_section1, Map(TRUE, <<Pair(K_property,
                                          Str(T_value, "QUOTE_SINGLE"))>>))>>)

InitMeta ==
    /\ \E present \in SUBSET Range(RequiredFields) :
          parseResult = [ast |-> MetaDocument(present), errors |-> <<>>]
    /\ originalContent = "none"
    /\ document = NullNode
    /\ sessionErrors = <<>>
    /\ sessionWarnings = <<>>
    /\ autoFixedIssues = <<>>
    /\ fixedContent = NoText
    /\ pc = "start"
    /\ result = NoResult
    /\ run = 1
    /\ previous = NoPrevious
    /\ externalDocumentCache = <<>>
    /\ externalFiles = ExternalFiles
    /\ runs = NoRuns
    /\ disk = NoFile
    /\ load = NoLoad

SpecMeta == InitMeta /\ [][NextLayout]_vars

MetaBefore == parseResult.ast.items[1].value.items
MetaAfter == document.items[1].value.items

\* the defaults as the claim gives them
ClaimedDefault(field) ==
    IF field = K_name THEN Str(T_untitled, "QUOTE_SINGLE")
    ELSE IF field = K_purpose THEN Str(T_lamlDocument, "QUOTE_DOUBLE")
    ELSE IF field = K_version THEN Scalar("num", T_one, "NONE")
    ELSE IF field = K_spec THEN Str(T_specPath, "QUOTE_SINGLE")
    ELSE Seq_(FALSE, <<>>)

EntriesOf(items, field) == {i \in 1..Len(items) : items[i].key = field}

\* the ledger entries that name the field or the text synthesized for it
LedgerEntriesFor(field) ==
    {i \in 1..Len(autoFixedIssues) :
        \/ autoFixedIssues[i].a = field
        \/ /\ isScalar(ClaimedDefault(field))
           /\ autoFixedIssues[i].a = ClaimedDefault(field).text}

StructureChecked == run = 1 /\ pc = "metaPosition"

\* C26: after structural validation every required field that the parsed
\* $meta lacks is present once, with the default and the quoting of the
\* claim (name and spec single-quoted, purpose double-quoted, version an
\* unquoted number, domains an empty sequence) and with exactly one ledger
\* entry; every field the parsed $meta has holds the value it was parsed with
C26_MissingFieldsSynthesized ==
    StructureChecked =>
        \A f \in Range(RequiredFields) :
            IF EntriesOf(MetaBefore, f) = {}
            THEN /\ \E i \in 1..Len(MetaAfter) :
                        /\ EntriesOf(MetaAfter, f) = {i}
                        /\ MetaAfter[i].value = ClaimedDefault(f)
                 /\ Cardinality(LedgerEntriesFor(f)) = 1
            ELSE \E i \in 1..Len(MetaBefore), j \in 1..Len(MetaAfter) :
                     /\ EntriesOf(MetaBefore, f) = {i}
                     /\ EntriesOf(MetaAfter, f) = {j}
                     /\ MetaAfter[j].value = MetaBefore[i].value


----------------------------------------------------------------------------
(* External references that fail for different causes *)

K_gone == <<"g","o","n","e">>

\* *$refs.<key>.shared.<property>
ExternalRef(key, property) ==
    T_extPrefix \o key \o <<".">> \o K_shared \o <<".">> \o property

T_refMissing == <<"*","s","e","c","t","i","o","n","1",".","g","o","n","e">>

\* references that resolve, and references that fail: the path is missing
\* in the external document, the file cannot be loaded, the key is not one
\* of $refs, the internal target does not exist
ReferenceTexts ==
    { ExternalRef(K_ext, K_value), ExternalRef(K_ext, K_gone),
      ExternalRef(K_gone, K_value), ExternalRef(K_shared, K_value),
      T_refProperty, T_refMissing }

\* $refs absent, $refs: {ext: {path: 'ext.md'}}, and the same with
\* gone: {path: 'gone.md'}, a file that does not exist
RefsChoices ==
    { <<>>,
      <<Pair(K_refs, Map(FALSE, <<Pair(K_ext,
               Map(TRUE, <<Pair(K_path, Str(P_ext, "QUOTE_SINGLE"))>>))>>))>>,
      <<Pair(K_refs, Map(FALSE, <<
           Pair(K_ext, Map(TRUE, <<Pair(K_path, Str(P_ext, "QUOTE_SINGLE"))>>)),
           Pair(K_gone, Map(TRUE, <<Pair(K_path, Str(P_gone, "QUOTE_SINGLE"))>>))
        >>))>> }

\* $meta, $refs, section1 and  section3: { ref: r1, type: r2 }
ExternalDocument(refs, r1, r2) ==
    Map(FALSE, <<ValidMeta>> \o refs \o <<
        Pair(K_section1, Map(TRUE, <<Pair(K_property,
                                        Str(T_value, "QUOTE_SINGLE"))>>)),
        Pair(K_section3, Map(FALSE, <<Pair(K_ref, Str(r1, "QUOTE_SINGLE")),
                                      Pair(K_type, Str(r2, "QUOTE_SINGLE"))>>))>>)

InitExternal ==
    /\ \E refs \in RefsChoices, r1 \in ReferenceTexts, r2 \in ReferenceTexts :
          parseResult = [ast |-> ExternalDocument(refs, r1, r2), errors |-> <<>>]
    /\ originalContent = "none"
    /\ document = NullNode
    /\ sessionErrors = <<>>
    /\ sessionWarnings = <<>>
    /\ autoFixedIssues = <<>>
    /\ fixedContent = NoText
    /\ pc = "start"
    /\ result = NoResult
    /\ run = 1
    /\ previous = NoPrevious
    /\ externalDocumentCache = <<>>
    /\ externalFiles = ExternalFiles
    /\ runs = NoRuns
    /\ disk = NoFile
    /\ load = NoLoad

SpecExternal == InitExternal /\ [][NextCycles]_vars

\* why a reference of the document fails, read off the document and the
\* files: "key", "file", "path" for an external reference, "internal" for
\* an internal one, "none" when it resolves
FailureCause(doc, r) ==
    IF ~StartsWith(r, T_extPrefix)
    THEN IF PathDeclared(doc, Split(Drop(r, 1), ".")) THEN "none"
         ELSE "internal"
    ELSE LET segs == Split(Drop(r, Len(T_extPrefix)), ".")
             path == ValueAt(doc, K_refs, segs[1])
         IN  IF ~isMap(path) \/ FindIndex(path.items, K_path) = 0 THEN "key"
             ELSE LET name == path.items[FindIndex(path.items, K_path)]
                                  .value.text
                  IN  IF name \notin DOMAIN ExternalFiles THEN "file"
                      ELSE IF PathDeclared(ExternalFiles[name], Tail(segs))
                           THEN "none"
                           ELSE "path"

\* what the run reports about a reference: the codes and messages of the
\* errors recorded for it
ReportedFor(r) ==
    {<<sessionErrors[i].code, sessionErrors[i].msg>> :
        i \in {j \in 1..Len(sessionErrors) : sessionErrors[j].path = r}}

HeldReferences ==
    {parseResult.ast.items[i].value.items[j].value.text :
        i \in {k \in 1..Len(parseResult.ast.items) :
                  parseResult.ast.items[k].key = K_section3},
        j \in 1..2}

ReferencesChecked == pc = "valueTypes"

\* C27: after reference validation every reference that fails has an error
\* recorded for it, a reference that resolves has none, and two references
\* that fail for different causes (key not in $refs, file not loadable,
\* path missing in the external document, internal target missing) have no
\* error with the same code and message
C27_FailuresDistinguishable ==
    ReferencesChecked =>
        /\ \A r \in HeldReferences :
               (FailureCause(parseResult.ast, r) = "none")
                   <=> (ReportedFor(r) = {})
        /\ \A r1, r2 \in HeldReferences :
               FailureCause(parseResult.ast, r1) # FailureCause(parseResult.ast, r2)
                   => ReportedFor(r1) \cap ReportedFor(r2) = {}

\* one document holds a reference into a file that cannot be loaded and a
\* reference to a path the loaded external document lacks, and both are
\* reported
C27_Witness ==
    /\ ReferencesChecked
    /\ \E r1, r2 \in HeldReferences :
           /\ FailureCause(parseResult.ast, r1) = "file"
           /\ FailureCause(parseResult.ast, r2) = "path"
           /\ ReportedFor(r1) # {}
           /\ ReportedFor(r2) # {}


----------------------------------------------------------------------------
(* The external-document cache under concurrent runs *)

MaxConcurrentRuns == 2

\* the loads one run makes
MaxLoads == 2

CacheRuns == 1..MaxConcurrentRuns

\* the external document, and the document after someone edited the file
TreeBefore == ExternalFiles[P_ext]

TreeAfter ==
    Map(FALSE, <<Pair(K_shared,
        Map(FALSE, <<Pair(K_value, Str(T_value, "QUOTE_SINGLE"))>>))>>)

ExternalPaths == {P_ext, P_gone}

\* what the file system can hold at the two paths
FileSystems ==
    UNION {[paths -> {TreeBefore, TreeAfter}] : paths \in SUBSET ExternalPaths}

InitCache ==
    /\ externalDocumentCache = <<>>
    /\ externalFiles \in FileSystems
    /\ runs = [r \in CacheRuns |->
                  [loads |-> 0, path |-> <<>>, loaded |-> NullNode]]
    /\ originalContent = "none"
    /\ parseResult = [ast |-> NullNode, errors |-> <<>>]
    /\ document = NullNode
    /\ sessionErrors = <<>>
    /\ sessionWarnings = <<>>
    /\ autoFixedIssues = <<>>
    /\ fixedContent = NoText
    /\ pc = "references"
    /\ result = NoResult
    /\ run = 1
    /\ previous = NoPrevious
    /\ disk = NoFile
    /\ load = NoLoad

\* one call of loadExternalDocument by one of the runs: the call is
\* synchronous, so the lookup, the read and the insertion are one step
LoadExternalDocument ==
    /\ \E r \in CacheRuns, filePath \in ExternalPaths :
          /\ runs[r].loads < MaxLoads
          /\ \E got \in {loadExternalDocumentFrom(externalFiles, filePath,
                                                   externalDocumentCache)} :
                /\ externalDocumentCache' = got.cache
                /\ runs' = [runs EXCEPT ![r] =
                               [loads |-> @.loads + 1,
                                path |-> ResolvePath(filePath),
                                loaded |-> got.doc]]
    /\ UNCHANGED <<originalContent, parseResult, document, sessionErrors,
                   sessionWarnings, autoFixedIssues, fixedContent, pc, result,
                   run, previous, disk, load, externalFiles>>

\* another process creates, edits or deletes a file between two loads
ChangeFiles ==
    /\ externalFiles' \in FileSystems \ {externalFiles}
    /\ UNCHANGED <<originalContent, parseResult, document, sessionErrors,
                   sessionWarnings, autoFixedIssues, fixedContent, pc, result,
                   run, previous, disk, load, externalDocumentCache, runs>>

NextCache == LoadExternalDocument \/ ChangeFiles

SpecCache == InitCache /\ [][NextCache]_vars

\* C28: in every step, whichever run takes it, each path the cache holds
\* keeps its tree, and a load of a path the cache holds returns the tree
\* the cache held before the step
C28_CacheEntriesAreStable ==
    [][/\ \A q \in DOMAIN externalDocumentCache :
              /\ q \in DOMAIN externalDocumentCache'
              /\ externalDocumentCache'[q] = externalDocumentCache[q]
       /\ \A r \in CacheRuns :
              (runs'[r] # runs[r]
               /\ runs'[r].path \in DOMAIN externalDocumentCache)
                  => runs'[r].loaded = externalDocumentCache[runs'[r].path]]_vars

\* the file was edited after the first run loaded it, and the second run
\* still got the tree the first run stored
C28_Witness ==
    /\ P_ext \in DOMAIN externalDocumentCache
    /\ P_ext \in DOMAIN externalFiles
    /\ externalFiles[P_ext] # externalDocumentCache[P_ext]
    /\ \A r \in CacheRuns :
           /\ runs[r].path = P_ext
           /\ runs[r].loaded = externalDocumentCache[P_ext]


----------------------------------------------------------------------------
(* The corrected full text of a fenced input *)

\* the run returned a corrected full text for an input that was already
\* inside a yaml fence: the only corrections are those made on the tree
TreeCorrectedFencedInput ==
    /\ pc = "done"
    /\ originalContent = "fenced"
    /\ Len(result.autoFixedIssues) > 0
    /\ result.fixedContent.present

\* C29: when the input was already inside a yaml fence and only corrections
\* on the tree were applied, the corrected full text still has the fence
\* around the payload
C29_FenceKept ==
    TreeCorrectedFencedInput => result.fixedContent.fenced


----------------------------------------------------------------------------
(* The missing-fence fix on the text of a dialect Markdown file *)

\* the text as a sequence of tokens: a ``` fence mark, the word yaml, a
\* line break, a --- frontmatter mark, any other character that is not
\* white space
BT == "fence"
YAML == "yaml"
NL == "\n"
DASH == "---"
TX == "a"

Tokens == {BT, YAML, NL, DASH, TX}

MaxContentTokens == 6

\* \s of the regular expressions, and what trim() removes
isWs(c) == c = NL

Max(S) == CHOOSE x \in S : \A y \in S : y <= x
Min(S) == CHOOSE x \in S : \A y \in S : x <= y

\* String.prototype.trim
Trim(s) ==
    LET inked == {i \in 1..Len(s) : ~isWs(s[i])} IN
    IF inked = {} THEN <<>> ELSE SubSeq(s, Min(inked), Max(inked))

\* the positions where \s*\n can end when it starts at position from
WsThenNl(s, from) ==
    {j \in from..Len(s) :
        s[j] = NL /\ \A x \in from..(j - 1) : isWs(s[x])}

\* the positions of the line break of a \n``` after position j
NlFenceAfter(s, j) ==
    {k \in (j + 1)..(Len(s) - 1) : s[k] = NL /\ s[k + 1] = BT}

\* /```yaml\s*\n[\s\S]*?\n```/ tried at position i: the position of the
\* last token of the match, 0 when it does not match there; \s* is
\* greedy and gives back, [\s\S]*? is lazy
YamlBlockEnd(s, i) ==
    IF i + 1 > Len(s) \/ s[i] # BT \/ s[i + 1] # YAML THEN 0
    ELSE LET js == {j \in WsThenNl(s, i + 2) : NlFenceAfter(s, j) # {}} IN
         IF js = {} THEN 0 ELSE Min(NlFenceAfter(s, Max(js))) + 1

\* replace(/```yaml\s*\n[\s\S]*?\n```/g, ''): the leftmost match is cut,
\* the search goes on behind it
RECURSIVE RemoveYamlBlocks(_)
RemoveYamlBlocks(s) ==
    LET starts == {i \in 1..Len(s) : YamlBlockEnd(s, i) > 0} IN
    IF starts = {} THEN s
    ELSE SubSeq(s, 1, Min(starts) - 1)
         \o RemoveYamlBlocks(SubSeq(s, YamlBlockEnd(s, Min(starts)) + 1,
                                    Len(s)))

\* the positions of the line break of a \n---\s*\n after position j, each
\* with the position where the match then ends
FrontmatterClose(s, j) ==
    {k \in (j + 1)..(Len(s) - 1) :
        s[k] = NL /\ s[k + 1] = DASH /\ WsThenNl(s, k + 2) # {}}

\* /^(---\s*\n.*?\n---\s*\n)/s: the length of the frontmatter block, 0
\* when the content has none
FrontmatterLength(s) ==
    IF Len(s) = 0 \/ s[1] # DASH THEN 0
    ELSE LET js == {j \in WsThenNl(s, 2) : FrontmatterClose(s, j) # {}} IN
         IF js = {} THEN 0
         ELSE Max(WsThenNl(s, Min(FrontmatterClose(s, Max(js))) + 2))

\* content.replace(frontmatterMatch[1], '')
WithoutFrontmatter(s) == SubSeq(s, FrontmatterLength(s) + 1, Len(s))

hasUnwrappedContent(content) ==
    Len(Trim(RemoveYamlBlocks(WithoutFrontmatter(content)))) > 0

wrapInYamlBlocks(content) ==
    SubSeq(content, 1, FrontmatterLength(content))
    \o <<BT, YAML, NL>> \o Trim(WithoutFrontmatter(content)) \o <<NL, BT>>

\* validateYamlWrapping on the text of a file whose name has .laml. in it
\* and ends in .md or .mdc: the text it returns and the ledger
validateYamlWrapping(content, ledger) ==
    IF hasUnwrappedContent(content)
    THEN [content |-> wrapInYamlBlocks(content),
          ledger |-> AutoFixAdd(ledger,
                         Fix("Wrapped content in yaml blocks", <<>>, <<>>, ""))]
    ELSE [content |-> content, ledger |-> ledger]

RECURSIVE TextsOfLength(_)
TextsOfLength(n) ==
    IF n = 0 THEN {<<>>}
    ELSE {Append(s, c) : s \in TextsOfLength(n - 1), c \in Tokens}

Contents == UNION {TextsOfLength(n) : n \in 0..MaxContentTokens}

InitWrapping ==
    /\ originalContent \in Contents
    /\ parseResult = [ast |-> NullNode, errors |-> <<>>]
    /\ document = NullNode
    /\ sessionErrors = <<>>
    /\ sessionWarnings = <<>>
    /\ autoFixedIssues = <<>>
    /\ fixedContent = NoText
    /\ pc = "start"
    /\ result = NoResult
    /\ run = 1
    /\ previous = NoPrevious
    /\ externalDocumentCache = <<>>
    /\ externalFiles = ExternalFiles
    /\ runs = NoRuns
    /\ disk = NoFile
    /\ load = NoLoad

\* one pass of validateYamlWrapping over the text
WrapContent ==
    /\ pc = "start"
    /\ \E r \in {validateYamlWrapping(originalContent, autoFixedIssues)} :
          /\ fixedContent' = r.content
          /\ autoFixedIssues' = r.ledger
    /\ pc' = "wrapped"
    /\ UNCHANGED <<originalContent, parseResult, document, sessionErrors,
                   sessionWarnings, result, run, previous,
                   externalDocumentCache, externalFiles, runs, disk, load>>

\* the text the pass returned is passed through again, with a new ledger
WrapAgain ==
    /\ pc = "wrapped"
    /\ run = 1
    /\ previous' = [result |-> [NoResult EXCEPT
                                   !.autoFixedIssues = autoFixedIssues],
                    errors |-> <<>>, warnings |-> <<>>]
    /\ originalContent' = fixedContent
    /\ autoFixedIssues' = <<>>
    /\ fixedContent' = NoText
    /\ run' = 2
    /\ pc' = "start"
    /\ UNCHANGED <<parseResult, document, sessionErrors, sessionWarnings,
                   result, externalDocumentCache, externalFiles, runs, disk,
                   load>>

NextWrapping == WrapContent \/ WrapAgain

SpecWrapping == InitWrapping /\ [][NextWrapping]_vars

\* the second pass is over, and the first pass had wrapped the text
SecondPassOverWrapped ==
    /\ run = 2
    /\ pc = "wrapped"
    /\ Len(previous.result.autoFixedIssues) > 0

\* C30: when the missing-fence fix is applied to the text it produced, the
\* second pass returns the text unchanged and records no ledger entry
C30_WrappingIsIdempotent ==
    SecondPassOverWrapped =>
        /\ fixedContent = originalContent
        /\ autoFixedIssues = <<>>

====
